---- MODULE Spec2Model ----
(***************************************************************************)
(* wtman: configuration loading/merging (src/config) and the hook          *)
(* executor (src/hooks/executor.ts).                                       *)
(*                                                                         *)
(* Strings are sequences of tokens; a token is a literal piece of text or  *)
(* a whole "${{ key }}" placeholder.  Paths are token sequences whose      *)
(* first token is "/" when the path is absolute.                           *)
(***************************************************************************)
EXTENDS Naturals, Sequences, FiniteSets, TLC

VARIABLES
    hookType,   \* options.hookType of the executeHooks call
    steps,      \* options.steps
    pc,         \* position of executeHooks: Pending, Running, Awaiting, Succeeded, Failed
    idx,        \* index (1-based) of the step the for-loop is at
    started,    \* log of the action calls made so far, in call order
    inflight,   \* indexes of the steps whose action promise is not settled yet
    settled,    \* log of the ActionResults the awaited actions resolved with
    result,     \* the ExecuteHooksResult returned (NoResult before the return)
    files,      \* the three config files on disk: team, user, worktree-local
    lpc,        \* position of loadConfig: team, user, local, merge, done, threw
    configs,    \* loadConfig's local array of RawConfig
    loaded,     \* the Config returned by loadConfig (<<>> before; <<cfg>> after)
    lerror,     \* the error loadConfig threw (<<>> when none)
    tp,         \* one use of the template entry points: inputs and outputs
    xp,         \* one call of expandTemplate on a string given character-wise
    cmd,        \* one run of the add command
    rmv,        \* one run of the remove command
    fs,         \* a directory tree and the file action applied to it
    rs,         \* one call of runStep: the child's events and the promise
    md          \* two add commands at work on one metadata file

execVars == <<hookType, steps, pc, idx, started, inflight, settled, result>>
loadVars == <<files, lpc, configs, loaded, lerror>>
otherVars == <<tp, xp, cmd, rmv, fs, rs, md>>
vars == <<hookType, steps, pc, idx, started, inflight, settled, result,
          files, lpc, configs, loaded, lerror, tp, xp, cmd, rmv, fs, rs, md>>

\* ------------------------------------------------------------------ bounds
\* longest step list given to executeHooks
MaxSteps == 3
\* longest hook list one config file defines for a phase
MaxHooks == 2

\* ------------------------------------------------------------ hook types
HookTypes == {"pre-worktree-add", "post-worktree-add",
              "pre-worktree-remove", "post-worktree-remove"}

\* faulty variant: the availability check lets every phase through
isWorktreeAvailable_AlwaysAvailable(h) == TRUE

isWorktreeAvailable(h) == h = "post-worktree-add" \/ h = "pre-worktree-remove"

\* --------------------------------------------------------- optional values
\* A value of type  string | string[] | undefined :
\*   tag "undef"  the field is absent,
\*   tag "str"    a string, items = <<the string>>,
\*   tag "arr"    an array of strings, items = the strings.
Undef == [tag |-> "undef", items |-> <<>>]
Str(s) == [tag |-> "str", items |-> <<s>>]
Arr(a) == [tag |-> "arr", items |-> a]

\* JavaScript truthiness of such a value: undefined and "" are falsy,
\* every array (the empty one too) and every non-empty string is truthy.
Truthy(p) == \/ p.tag = "arr"
             \/ p.tag = "str" /\ p.items[1] # <<>>

IsSet(p) == p.tag # "undef"

normalizeTargets(p) == IF p.tag = "arr" THEN p.items ELSE <<p.items[1]>>

\* ---------------------------------------------------------------- context
\* The HookContext of the call (tests/hooks/executor.test.ts mockContext).
OriginalPath == <<"/", "repo">>
WorktreePath == <<"/", "wt">>
Context == [original |-> [path |-> OriginalPath, basename |-> <<"repo">>],
            worktree |-> [path |-> WorktreePath, basename |-> <<"wt">>,
                          branch |-> <<"feature/test">>]]

\* The flat variable map of a hook context: placeholder token -> value.
flattenHookContext(context) ==
    [k \in {"${{ original.path }}", "${{ original.basename }}",
            "${{ worktree.path }}", "${{ worktree.basename }}",
            "${{ worktree.branch }}"} |->
        CASE k = "${{ original.path }}"     -> context.original.path
          [] k = "${{ original.basename }}" -> context.original.basename
          [] k = "${{ worktree.path }}"     -> context.worktree.path
          [] k = "${{ worktree.basename }}" -> context.worktree.basename
          [] k = "${{ worktree.branch }}"   -> context.worktree.branch]

\* The placeholder tokens of the model; one names a key no context defines.
Placeholders == {"${{ original.path }}", "${{ original.basename }}",
                 "${{ worktree.path }}", "${{ worktree.basename }}",
                 "${{ worktree.branch }}", "${{ missing }}"}

RECURSIVE expandTemplate(_, _)
expandTemplate(template, variables) ==
    IF template = <<>> THEN <<>>
    ELSE LET t == Head(template)
             v == IF t \in Placeholders
                  THEN IF t \in DOMAIN variables THEN variables[t] ELSE <<>>
                  ELSE <<t>>
         IN v \o expandTemplate(Tail(template), variables)

expandHookCommand(template, context) ==
    expandTemplate(template, flattenHookContext(context))

\* node:path
isAbsolute(p) == p # <<>> /\ p[1] = "/"
pathJoin(a, b) == a \o b

\* ------------------------------------------------------------- hook steps
\* A HookStep as executeHooks reads it.
NoAction(name) ==
    [name |-> name, run |-> Undef, mkdir |-> Undef, remove |-> Undef,
     copy |-> Undef, link |-> Undef, workingDirectory |-> Undef]

\* The step shapes the executor is run on: every single action, no action,
\* an empty command, two action fields at once, a working-directory.
StepShapes ==
    LET s == NoAction("") IN
    { s,
      [s EXCEPT !.run = Str(<<"echo ", "${{ worktree.branch }}">>)],
      [s EXCEPT !.mkdir = Arr(<<<<"logs">>, <<"tmp">>>>)],
      [s EXCEPT !.remove = Str(<<"dist">>)],
      [s EXCEPT !.copy = Str(<<".env">>)],
      [s EXCEPT !.link = Arr(<<<<"node_modules">>>>)],
      [s EXCEPT !.run = Str(<<>>)],
      [s EXCEPT !.run = Str(<<"make">>), !.copy = Str(<<".env">>)],
      [s EXCEPT !.copy = Str(<<".env">>), !.link = Str(<<".env">>)],
      [s EXCEPT !.run = Str(<<"make">>), !.workingDirectory = Str(<<"frontend">>)] }

\* The name of the i-th step of a list: every step has a name of its own.
StepName(i) == ToString(i)

\* The step list made of the given shapes.
StepList(shapes) ==
    [i \in DOMAIN shapes |-> [shapes[i] EXCEPT !.name = StepName(i)]]

\* ---------------------------------------------------------- hook executor
\* faulty variant: the phase is ignored, the worktree path is always the default
getDefaultWorkingDirectory_AlwaysWorktree(h, context) == context.worktree.path

getDefaultWorkingDirectory(h, context) ==
    IF h = "post-worktree-add" \/ h = "pre-worktree-remove"
    THEN context.worktree.path
    ELSE context.original.path

\* faulty variant: the expanded value is always joined onto the phase default
resolveWorkingDirectory_AlwaysJoin(step, h, context) ==
    LET defaultWorkingDirectory == getDefaultWorkingDirectory(h, context) IN
    IF Truthy(step.workingDirectory)
    THEN pathJoin(defaultWorkingDirectory,
                  expandHookCommand(step.workingDirectory.items[1], context))
    ELSE defaultWorkingDirectory

\* executor.ts 68-82: the working directory of a step
resolveWorkingDirectory(step, h, context) ==
    LET defaultWorkingDirectory == getDefaultWorkingDirectory(h, context) IN
    IF Truthy(step.workingDirectory)
    THEN LET expanded == expandHookCommand(step.workingDirectory.items[1], context)
         IN IF isAbsolute(expanded) THEN expanded
            ELSE pathJoin(defaultWorkingDirectory, expanded)
    ELSE defaultWorkingDirectory

\* faulty variant: the chain tests copy and link before the other fields
ActionOf_CopyFirst(step) ==
    IF Truthy(step.copy) THEN "copy"
    ELSE IF Truthy(step.link) THEN "link"
    ELSE IF Truthy(step.run) THEN "run"
    ELSE IF Truthy(step.mkdir) THEN "mkdir"
    ELSE IF Truthy(step.remove) THEN "remove"
    ELSE "none"

\* executor.ts 89-139: the branch of the if/else-if chain a step takes
ActionOf(step) ==
    IF Truthy(step.run) THEN "run"
    ELSE IF Truthy(step.mkdir) THEN "mkdir"
    ELSE IF Truthy(step.remove) THEN "remove"
    ELSE IF Truthy(step.copy) THEN "copy"
    ELSE IF Truthy(step.link) THEN "link"
    ELSE "none"

NoPath == <<>>

\* faulty variant: copy and link resolve against the step's working directory
ActionCall_InWorkingDirectory(i, step, h, context) ==
    LET kind == ActionOf(step)
        wd == resolveWorkingDirectory(step, h, context)
    IN [step |-> i, action |-> kind,
        payload |-> IF kind = "run"
                    THEN <<expandHookCommand(step.run.items[1], context)>>
                    ELSE normalizeTargets(step[kind]),
        workingDirectory |-> IF kind \in {"copy", "link"} THEN NoPath ELSE wd,
        originalPath |-> IF kind \in {"copy", "link"} THEN wd ELSE NoPath,
        worktreePath |-> IF kind \in {"copy", "link"} THEN wd ELSE NoPath]

\* The arguments of the action call a step makes.
ActionCall(i, step, h, context) ==
    LET kind == ActionOf(step)
        wd == resolveWorkingDirectory(step, h, context)
    IN CASE kind = "run" ->
              [step |-> i, action |-> "run",
               payload |-> <<expandHookCommand(step.run.items[1], context)>>,
               workingDirectory |-> wd,
               originalPath |-> NoPath, worktreePath |-> NoPath]
         [] kind \in {"mkdir", "remove"} ->
              [step |-> i, action |-> kind,
               payload |-> normalizeTargets(step[kind]),
               workingDirectory |-> wd,
               originalPath |-> NoPath, worktreePath |-> NoPath]
         [] kind \in {"copy", "link"} ->
              [step |-> i, action |-> kind,
               payload |-> normalizeTargets(step[kind]),
               workingDirectory |-> NoPath,
               originalPath |-> context.original.path,
               worktreePath |-> context.worktree.path]

\* executor.ts 112-114, 127-129: the error of a copy/link without worktree
UnavailableError(kind, h) ==
    <<"Cannot use '", kind, "' action in ", h, " hook (worktree does not exist)">>

\* The errors an action can resolve with (runner.ts 54, 62; node:fs errors).
ActionErrors(kind) ==
    IF kind = "run"
    THEN {<<"Command failed with exit code ", "1">>, <<"spawn ", "ENOENT">>}
    ELSE {<<kind, " failed: ", "EACCES">>}

NoError == <<>>
NoName == ""
NoResult == [returned |-> FALSE, success |-> FALSE, failedStep |-> NoName, error |-> NoError]
SuccessResult == [returned |-> TRUE, success |-> TRUE, failedStep |-> NoName, error |-> NoError]
FailureResult(name, err) ==
    [returned |-> TRUE, success |-> FALSE, failedStep |-> name, error |-> err]

\* loadConfig is not running in the executor's specification
LoadIdle ==
    /\ files = <<>> /\ lpc = "idle" /\ configs = <<>>
    /\ loaded = <<>> /\ lerror = <<>>

\* neither the template functions nor the add command are in use
TemplateIdle == tp = <<>>
ExpandIdle == xp = <<>>
AddIdle == cmd = <<>>
RemoveIdle == rmv = <<>>
FsIdle == fs = <<>>
RunIdle == rs = <<>>
StoreIdle == md = <<>>

Init ==
    /\ hookType \in HookTypes
    /\ \E n \in 0..MaxSteps :
         \E shapes \in [1..n -> StepShapes] : steps = StepList(shapes)
    /\ pc = "Pending"
    /\ idx = 0
    /\ started = <<>>
    /\ inflight = {}
    /\ settled = <<>>
    /\ result = NoResult
    /\ LoadIdle
    /\ TemplateIdle /\ ExpandIdle /\ AddIdle /\ RemoveIdle /\ FsIdle
    /\ RunIdle /\ StoreIdle

\* executeHooks is called: the loop starts at the first step
Begin ==
    /\ pc = "Pending"
    /\ pc' = "Running"
    /\ idx' = 1
    /\ UNCHANGED <<hookType, steps, started, inflight, settled, result>>
    /\ UNCHANGED <<loadVars, otherVars>>

\* faulty variant: a step without action ends the phase as a failure
SkipStep_Aborts ==
    /\ pc = "Running" /\ idx <= Len(steps)
    /\ ~Truthy(steps[idx].run) /\ ~Truthy(steps[idx].mkdir)
    /\ ~Truthy(steps[idx].remove) /\ ~Truthy(steps[idx].copy)
    /\ ~Truthy(steps[idx].link)
    /\ pc' = "Failed"
    /\ result' = FailureResult(steps[idx].name, <<"no action">>)
    /\ UNCHANGED <<hookType, steps, idx, started, inflight, settled>>
    /\ UNCHANGED <<loadVars, otherVars>>

\* executor.ts 136-138: no recognized action, continue
SkipStep ==
    /\ pc = "Running" /\ idx <= Len(steps)
    /\ ActionOf(steps[idx]) = "none"
    /\ idx' = idx + 1
    /\ UNCHANGED <<hookType, steps, pc, started, inflight, settled, result>>
    /\ UNCHANGED <<loadVars, otherVars>>

\* executor.ts 108-116, 123-131: copy/link where the worktree does not exist
RejectUnavailable ==
    /\ pc = "Running" /\ idx <= Len(steps)
    /\ ActionOf(steps[idx]) \in {"copy", "link"}
    /\ ~isWorktreeAvailable(hookType)
    /\ pc' = "Failed"
    /\ result' = FailureResult(steps[idx].name,
                               UnavailableError(ActionOf(steps[idx]), hookType))
    /\ UNCHANGED <<hookType, steps, idx, started, inflight, settled>>
    /\ UNCHANGED <<loadVars, otherVars>>

\* faulty variant: the call is not awaited, the loop goes on to the next step
AfterCall_NotAwaited(i) == [pc |-> "Running", idx |-> i + 1]

\* What the loop does once it has called the action of step i: it awaits it.
AfterCall(i) == [pc |-> "Awaiting", idx |-> i]

\* executor.ts 89-135: the action of the step is called and awaited
Dispatch(kind) ==
    /\ pc = "Running" /\ idx <= Len(steps)
    /\ ActionOf(steps[idx]) = kind
    /\ kind \in {"copy", "link"} => isWorktreeAvailable(hookType)
    /\ started' = Append(started, ActionCall(idx, steps[idx], hookType, Context))
    /\ inflight' = inflight \cup {idx}
    /\ pc' = AfterCall(idx).pc
    /\ idx' = AfterCall(idx).idx
    /\ UNCHANGED <<hookType, steps, settled, result>>
    /\ UNCHANGED <<loadVars, otherVars>>

DispatchRun == Dispatch("run")
DispatchMkdir == Dispatch("mkdir")
DispatchRemove == Dispatch("remove")
DispatchCopy == Dispatch("copy")
DispatchLink == Dispatch("link")

\* faulty variant: a failed ActionResult does not end the loop
OnResult_IgnoresFailure(i, r) == [pc |-> "Running", idx |-> i + 1, result |-> NoResult]

\* executor.ts 141-147: what the loop does with the ActionResult r of step i
OnResult(i, r) ==
    IF ~r.success
    THEN [pc |-> "Failed", idx |-> i,
          result |-> FailureResult(steps[i].name, r.error)]
    ELSE [pc |-> "Running", idx |-> i + 1, result |-> NoResult]

\* faulty variant: a failed result undoes what the earlier steps completed
actionResults_Rollback(log, r) == IF r.success THEN Append(log, r) ELSE <<r>>

\* executor.ts 87-147: the results of the awaited actions; a result, failed
\* or not, leaves what the earlier actions did as it is.
actionResults(log, r) == Append(log, r)

\* the awaited action resolves with success
ActionSucceeds ==
    /\ pc = "Awaiting"
    /\ LET r == [step |-> idx, success |-> TRUE, error |-> NoError] IN
       /\ settled' = actionResults(settled, r)
       /\ inflight' = inflight \ {idx}
       /\ pc' = OnResult(idx, r).pc
       /\ idx' = OnResult(idx, r).idx
       /\ result' = OnResult(idx, r).result
    /\ UNCHANGED <<hookType, steps, started>>
    /\ UNCHANGED <<loadVars, otherVars>>

\* the awaited action resolves with an error
ActionFails ==
    /\ pc = "Awaiting"
    /\ \E e \in ActionErrors(started[Len(started)].action) :
         LET r == [step |-> idx, success |-> FALSE, error |-> e] IN
         /\ settled' = actionResults(settled, r)
         /\ inflight' = inflight \ {idx}
         /\ pc' = OnResult(idx, r).pc
         /\ idx' = OnResult(idx, r).idx
         /\ result' = OnResult(idx, r).result
    /\ UNCHANGED <<hookType, steps, started>>
    /\ UNCHANGED <<loadVars, otherVars>>

\* faulty variant: the loop runs off the end of the list and never returns
Finish_NeverReturns ==
    /\ pc = "Running" /\ idx > Len(steps)
    /\ UNCHANGED <<hookType, steps, pc, idx, started, inflight, settled, result>>
    /\ UNCHANGED <<loadVars, otherVars>>

\* executor.ts 150: the loop ran off the end of the list
Finish ==
    /\ pc = "Running" /\ idx > Len(steps)
    /\ pc' = "Succeeded"
    /\ result' = SuccessResult
    /\ UNCHANGED <<hookType, steps, idx, started, inflight, settled>>
    /\ UNCHANGED <<loadVars, otherVars>>

Next ==
    \/ Begin
    \/ SkipStep
    \/ RejectUnavailable
    \/ DispatchRun
    \/ DispatchMkdir
    \/ DispatchRemove
    \/ DispatchCopy
    \/ DispatchLink
    \/ ActionSucceeds
    \/ ActionFails
    \/ Finish

Spec == Init /\ [][Next]_vars

\* The steps executeHooks takes by itself: synchronous code between two awaits,
\* which the JavaScript run loop always runs to the next await or return.
ExecutorStep ==
    \/ Begin \/ SkipStep \/ RejectUnavailable \/ Finish
    \/ DispatchRun \/ DispatchMkdir \/ DispatchRemove
    \/ DispatchCopy \/ DispatchLink

\* The promise of the awaited action settles.
ActionCompletes == ActionSucceeds \/ ActionFails

\* executeHooks where the loop's own code always goes on and every dispatched
\* action eventually completes.
SpecLive ==
    /\ Init /\ [][Next]_vars
    /\ WF_vars(ExecutorStep)
    /\ WF_vars(ActionCompletes)

\* ------------------------------------- executor, working-directory inputs
\* longest step list of the working-directory specification
MaxDirSteps == 2

\* Step shapes that set working-directory in every way the executor tells
\* apart (relative, absolute, a template that expands to either, one that
\* expands to nothing, the empty string) and targets that hold placeholders.
DirShapes ==
    LET s == NoAction("") IN
    { s,
      [s EXCEPT !.run = Str(<<"make">>), !.workingDirectory = Str(<<"frontend">>)],
      [s EXCEPT !.run = Str(<<"make">>), !.workingDirectory = Str(<<"/", "opt">>)],
      [s EXCEPT !.run = Str(<<"ls ", "${{ worktree.path }}">>),
                !.workingDirectory = Str(<<"${{ original.path }}", "/sub">>)],
      [s EXCEPT !.mkdir = Str(<<"${{ worktree.branch }}", "-logs">>),
                !.workingDirectory = Str(<<"${{ worktree.basename }}">>)],
      [s EXCEPT !.mkdir = Arr(<<<<"logs">>, <<"tmp">>>>),
                !.workingDirectory = Str(<<"${{ missing }}">>)],
      [s EXCEPT !.remove = Str(<<"dist">>), !.workingDirectory = Str(<<>>)],
      [s EXCEPT !.remove = Arr(<<<<"${{ original.basename }}", ".lock">>>>)],
      [s EXCEPT !.copy = Str(<<".env">>), !.workingDirectory = Str(<<"frontend">>)],
      [s EXCEPT !.link = Arr(<<<<"${{ original.basename }}", ".cfg">>>>),
                !.workingDirectory = Str(<<"/", "opt">>)] }

InitDirs ==
    /\ hookType \in HookTypes
    /\ \E n \in 0..MaxDirSteps :
         \E shapes \in [1..n -> DirShapes] : steps = StepList(shapes)
    /\ pc = "Pending"
    /\ idx = 0
    /\ started = <<>>
    /\ inflight = {}
    /\ settled = <<>>
    /\ result = NoResult
    /\ LoadIdle
    /\ TemplateIdle /\ ExpandIdle /\ AddIdle /\ RemoveIdle /\ FsIdle
    /\ RunIdle /\ StoreIdle

SpecDirs == InitDirs /\ [][Next]_vars

\* ------------------------------------- executor, steps with several fields
\* longest step list of the action-field specification
MaxFieldSteps == 1

\* schema.ts 20-27: every action field is optional by itself, so a step can
\* carry any combination of them; a run command can be the empty string.
FieldShapes ==
    { [NoAction("") EXCEPT !.run = r, !.mkdir = m, !.remove = d,
                           !.copy = c, !.link = l] :
        r \in {Undef, Str(<<>>), Str(<<"make">>)},
        m \in {Undef, Str(<<"logs">>)},
        d \in {Undef, Str(<<"dist">>)},
        c \in {Undef, Str(<<".env">>)},
        l \in {Undef, Arr(<<<<"node_modules">>>>)} }

InitFields ==
    /\ hookType \in HookTypes
    /\ \E n \in 1..MaxFieldSteps :
         \E shapes \in [1..n -> FieldShapes] : steps = StepList(shapes)
    /\ pc = "Pending"
    /\ idx = 0
    /\ started = <<>>
    /\ inflight = {}
    /\ settled = <<>>
    /\ result = NoResult
    /\ LoadIdle
    /\ TemplateIdle /\ ExpandIdle /\ AddIdle /\ RemoveIdle /\ FsIdle
    /\ RunIdle /\ StoreIdle

SpecFields == InitFields /\ [][Next]_vars

\* ============================================================ config loader
\* An optional scalar is <<>> when absent and <<v>> when it has the value v.
None == <<>>
Some(v) == <<v>>

Separators == {"hyphen", "underscore", "slash"}
DeleteBranches == {"ask", "always", "never"}
WorktreeFields == {"template", "separator", "deleteBranch"}

\* schema.ts 55-65
DEFAULT_CONFIG ==
    [worktree |-> [template |-> Some(<<"../", "${{ original.basename }}", "-",
                                       "${{ worktree.branch }}">>),
                   separator |-> Some("hyphen"),
                   deleteBranch |-> Some("ask")],
     hooks |-> [h \in HookTypes |-> <<>>]]

\* The paths loadConfig reads, in its order (loader 105, 110, 116).
ConfigPaths == <<"${cwd}/.wtman/config.yaml",
                 "${mainTreePath}/.wtman/config.user.yaml",
                 "${cwd}/.wtman/config.user.worktree.yaml">>

\* ---------------------------------------------------- parsed YAML documents
\* A parsed document: isObject is FALSE for an empty file or a scalar;
\* worktree is None or Some(settings), a settings field None or Some(value);
\* hooks[h] is None or Some(list of raw steps); a raw step has an optional name.
NoSettings == [template |-> None, separator |-> None, deleteBranch |-> None]
NoHooks == [h \in HookTypes |-> None]
EmptyDoc == [isObject |-> TRUE, worktree |-> None, hooks |-> NoHooks]
NotAnObject == [isObject |-> FALSE, worktree |-> None, hooks |-> NoHooks]

RawStep(name) ==
    [name |-> name, run |-> Undef, mkdir |-> Undef, remove |-> Undef,
     copy |-> Undef, link |-> Undef, workingDirectory |-> Undef]

\* ---------------------------------------------------------- valibot schemas
\* HookStepSchema (schema.ts 20-27): name is a required string, run an
\* optional string, the four others an optional string or array of strings.
HookStepIssues(path, raw) ==
    (IF raw.name = None THEN {path \o <<"name">>} ELSE {})
    \cup (IF raw.run.tag = "arr" THEN {path \o <<"run">>} ELSE {})

\* The output of HookStepSchema for a valid step: the entries the schema
\* declares; v.object drops every other key of the input.
HookStepOutput(raw) ==
    [name |-> raw.name[1], run |-> raw.run, mkdir |-> raw.mkdir,
     remove |-> raw.remove, copy |-> raw.copy, link |-> raw.link,
     workingDirectory |-> Undef]

\* WorktreeSettingsSchema (schema.ts 12-16)
WorktreeSettingsIssues(w) ==
    (IF w.separator # None /\ w.separator[1] \notin Separators
        THEN {<<"worktree", "separator">>} ELSE {})
    \cup (IF w.deleteBranch # None /\ w.deleteBranch[1] \notin DeleteBranches
        THEN {<<"worktree", "deleteBranch">>} ELSE {})

HookListIssues(h, list) ==
    UNION {HookStepIssues(<<h, ToString(j - 1)>>, list[j]) : j \in 1..Len(list)}

\* RawConfigSchema (schema.ts 31-37): the issue paths of a parsed document
RawConfigIssues(doc) ==
    IF ~doc.isObject THEN {<<>>}
    ELSE (IF doc.worktree = None THEN {} ELSE WorktreeSettingsIssues(doc.worktree[1]))
         \cup UNION {IF doc.hooks[h] = None THEN {}
                     ELSE HookListIssues(h, doc.hooks[h][1]) : h \in HookTypes}

\* result.output of a successful safeParse(RawConfigSchema, doc)
RawConfigOutput(doc) ==
    [worktree |-> doc.worktree,
     hooks |-> [h \in HookTypes |->
                  IF doc.hooks[h] = None THEN None
                  ELSE Some([j \in 1..Len(doc.hooks[h][1]) |->
                               HookStepOutput(doc.hooks[h][1][j])])]]

\* ------------------------------------------------------- loadSingleConfig
NoConfig == None
Returned(value) == [threw |-> FALSE, value |-> value,
                    error |-> [message |-> <<>>, issues |-> {}]]
Threw(message, issues) == [threw |-> TRUE, value |-> NoConfig,
                           error |-> [message |-> message, issues |-> issues]]

\* faulty variant: a file that does not exist is an error like any other read error
loadSingleConfig_NoEnoentCheck(filePath, file) ==
    CASE file.state = "missing" -> Threw(<<"ENOENT">>, {})
      [] file.state = "unreadable" -> Threw(<<"EACCES">>, {})
      [] file.state = "malformed" ->
            Threw(<<"Failed to parse ", filePath, ": ", "YAMLException">>, {})
      [] file.state = "parsed" ->
            IF RawConfigIssues(file.doc) # {}
            THEN Threw(<<"Invalid configuration in ", filePath, ":\n">>,
                       RawConfigIssues(file.doc))
            ELSE Returned(Some(RawConfigOutput(file.doc)))

\* loader 26-60. file.state: missing (readFile fails with ENOENT), unreadable
\* (readFile fails otherwise), malformed (parseYAML throws), parsed.
loadSingleConfig(filePath, file) ==
    CASE file.state = "missing" -> Returned(NoConfig)
      [] file.state = "unreadable" -> Threw(<<"EACCES">>, {})
      [] file.state = "malformed" ->
            Threw(<<"Failed to parse ", filePath, ": ", "YAMLException">>, {})
      [] file.state = "parsed" ->
            IF RawConfigIssues(file.doc) # {}
            THEN Threw(<<"Invalid configuration in ", filePath, ":\n">>,
                       RawConfigIssues(file.doc))
            ELSE Returned(Some(RawConfigOutput(file.doc)))

\* ------------------------------------------------------------------ merging
\* defu's merge of two flat objects: a defined entry of base wins, a missing
\* (or undefined, or null) entry of base leaves the entry of defaults.
defuSettings(base, defaults) ==
    [f \in WorktreeFields |-> IF base[f] # None THEN base[f] ELSE defaults[f]]

\* defu(first, ...rest): the arguments are folded left to right from {}
RECURSIVE defuAll(_, _)
defuAll(acc, objects) ==
    IF objects = <<>> THEN acc
    ELSE defuAll(defuSettings(acc, Head(objects)), Tail(objects))

Reverse(seq) == [i \in 1..Len(seq) |-> seq[Len(seq) + 1 - i]]

DefinedWorktrees(cfgs) ==
    LET defined == SelectSeq(cfgs, LAMBDA c : c.worktree # None)
    IN [i \in 1..Len(defined) |-> defined[i].worktree[1]]

\* faulty variant: the list is not reversed, so the earliest definition wins
mergeWorktreeSettings_NoReverse(cfgs) ==
    defuAll(NoSettings, <<NoSettings>> \o DefinedWorktrees(cfgs))

\* loader 66-74
mergeWorktreeSettings(cfgs) ==
    defuAll(NoSettings, <<NoSettings>> \o Reverse(DefinedWorktrees(cfgs)))

RECURSIVE flatMapHooks(_, _)
flatMapHooks(h, cfgs) ==
    IF cfgs = <<>> THEN <<>>
    ELSE (IF Head(cfgs).hooks[h] = None THEN <<>> ELSE Head(cfgs).hooks[h][1])
         \o flatMapHooks(h, Tail(cfgs))

\* faulty variant: a later file's list replaces the earlier ones
mergeHooks_Override(h, cfgs) ==
    LET defining == SelectSeq(cfgs, LAMBDA c : c.hooks[h] # None)
    IN IF defining = <<>> THEN <<>> ELSE defining[Len(defining)].hooks[h][1]

\* loader 80-85
mergeHooks(h, cfgs) == flatMapHooks(h, cfgs)

\* faulty variant: the defaults are not applied
applyDefaults_None(merged) == merged

\* loader 133: defu(mergedConfig, DEFAULT_CONFIG); arrays are concatenated
applyDefaults(merged) ==
    [worktree |-> defuSettings(merged.worktree, DEFAULT_CONFIG.worktree),
     hooks |-> [h \in HookTypes |-> merged.hooks[h] \o DEFAULT_CONFIG.hooks[h]]]

\* ConfigSchema (schema.ts 41-51): the issue paths of the merged config
ConfigIssues(cfg) ==
    {<<"worktree", f>> : f \in {g \in WorktreeFields : cfg.worktree[g] = None}}
    \cup WorktreeSettingsIssues(cfg.worktree)

\* the output of v.parse(ConfigSchema, cfg): the steps go through HookStepSchema
ConfigOutput(cfg) ==
    [worktree |-> cfg.worktree,
     hooks |-> [h \in HookTypes |->
                  [j \in 1..Len(cfg.hooks[h]) |->
                     HookStepOutput([cfg.hooks[h][j] EXCEPT
                                        !.name = Some(cfg.hooks[h][j].name)])]]]


\* loader 120-136: merge, apply the defaults, validate
mergeAndValidate(cfgs) ==
    LET mergedConfig == [worktree |-> mergeWorktreeSettings(cfgs),
                         hooks |-> [h \in HookTypes |-> mergeHooks(h, cfgs)]]
        configWithDefaults == applyDefaults(mergedConfig)
    IN IF ConfigIssues(configWithDefaults) # {}
       THEN Threw(<<"Invalid type">>, ConfigIssues(configWithDefaults))
       ELSE Returned(Some(ConfigOutput(configWithDefaults)))

\* ------------------------------------------------ the config files on disk
FileTags == <<"team", "user", "local">>
TemplateOf(i) == <<"../", FileTags[i], "-", "${{ worktree.branch }}">>
SeparatorOf(i) == <<"hyphen", "underscore", "slash">>[i]
DeleteBranchOf(i) == <<"always", "never", "always">>[i]

\* the worktree sections file i may hold: every field present or not
SettingsOf(i) ==
    {[template |-> t, separator |-> sp, deleteBranch |-> d] :
        t \in {None, Some(TemplateOf(i))},
        sp \in {None, Some(SeparatorOf(i))},
        d \in {None, Some(DeleteBranchOf(i))}}

\* the j-th step of file i, of the given kind
StepNameOf(i, j) == ToString(10 * i + j)
RawStepOf(i, j, kind) ==
    LET r == [RawStep(Some(StepNameOf(i, j))) EXCEPT
                 !.run = Str(<<"echo ", StepNameOf(i, j)>>)]
    IN CASE kind = "run" -> r
         [] kind = "two" -> [r EXCEPT !.copy = Str(<<".env">>)]
         [] kind = "wd" -> [r EXCEPT !.workingDirectory = Str(<<"frontend">>)]
         [] kind = "noname" -> [r EXCEPT !.name = None]
RawStepKinds == {"run", "two", "wd", "noname"}

\* the hook lists file i may hold: n steps, the last one of the given kind
HookListOf(i, n, kind) ==
    [j \in 1..n |-> RawStepOf(i, j, IF j = n THEN kind ELSE "run")]
HookListsOf(i) ==
    {HookListOf(i, n, kind) : n \in 0..MaxHooks, kind \in RawStepKinds}

\* the documents file i may parse to
DocsOf(i) ==
    {NotAnObject, EmptyDoc}
    \cup {[EmptyDoc EXCEPT !.worktree = Some(w)] : w \in SettingsOf(i)}
    \cup {[EmptyDoc EXCEPT !.worktree =
              Some([NoSettings EXCEPT !.separator = Some("dash")])]}
    \cup {[EmptyDoc EXCEPT !.hooks = [h \in HookTypes |->
                                        IF h \in phases THEN Some(l) ELSE None]] :
             l \in HookListsOf(i),
             phases \in {{"post-worktree-add"}, HookTypes}}
    \cup {[isObject |-> TRUE,
           worktree |-> Some([template |-> Some(TemplateOf(i)),
                              separator |-> Some(SeparatorOf(i)),
                              deleteBranch |-> Some(DeleteBranchOf(i))]),
           hooks |-> [h \in HookTypes |-> Some(HookListOf(i, 1, "run"))]]}

FileStatesOf(i) ==
    {[state |-> st, doc |-> NotAnObject] : st \in {"missing", "unreadable", "malformed"}}
    \cup {[state |-> "parsed", doc |-> d] : d \in DocsOf(i)}

\* ----------------------------------------------------------------- loadConfig
\* executeHooks is not running in the loader's specification
ExecIdle ==
    /\ hookType = "post-worktree-add" /\ steps = <<>> /\ pc = "Idle" /\ idx = 0
    /\ started = <<>> /\ inflight = {} /\ settled = <<>> /\ result = NoResult

InitLoad ==
    /\ \E f1 \in FileStatesOf(1), f2 \in FileStatesOf(2), f3 \in FileStatesOf(3) :
          files = <<f1, f2, f3>>
    /\ lpc = "team"
    /\ configs = <<>>
    /\ loaded = None
    /\ lerror = None
    /\ ExecIdle
    /\ TemplateIdle /\ ExpandIdle /\ AddIdle /\ RemoveIdle /\ FsIdle
    /\ RunIdle /\ StoreIdle

\* loader 105-118: one  await loadSingleConfig(...); if (c) configs.push(c)
LoadStep(i, here, next) ==
    /\ lpc = here
    /\ LET r == loadSingleConfig(ConfigPaths[i], files[i]) IN
       IF r.threw
       THEN /\ lpc' = "threw"
            /\ lerror' = Some(r.error)
            /\ UNCHANGED configs
       ELSE /\ lpc' = next
            /\ configs' = IF r.value # NoConfig THEN Append(configs, r.value[1])
                          ELSE configs
            /\ UNCHANGED lerror
    /\ UNCHANGED <<files, loaded>>
    /\ UNCHANGED <<execVars, otherVars>>

LoadTeam == LoadStep(1, "team", "user")
LoadUser == LoadStep(2, "user", "local")
LoadLocal == LoadStep(3, "local", "merge")

\* loader 120-136
MergeAndReturn ==
    /\ lpc = "merge"
    /\ LET r == mergeAndValidate(configs) IN
       IF r.threw
       THEN /\ lpc' = "threw"
            /\ lerror' = Some(r.error)
            /\ UNCHANGED loaded
       ELSE /\ lpc' = "done"
            /\ loaded' = r.value
            /\ UNCHANGED lerror
    /\ UNCHANGED <<files, configs>>
    /\ UNCHANGED <<execVars, otherVars>>

NextLoad == LoadTeam \/ LoadUser \/ LoadLocal \/ MergeAndReturn

SpecLoad == InitLoad /\ [][NextLoad]_vars

\* ------------------------------------------------- template entry points
\* longest branch name, counted in elements
MaxBranchLen == 3

\* A branch name is a sequence of elements; an element is "/" or a piece of
\* text that holds no "/".
BranchElements == {"/", "a", "-", "_"}
Branches ==
    UNION {[1..n -> BranchElements] : n \in 1..MaxBranchLen}
    \cup {<<"feature", "/", "add-cart">>}

\* faulty variant: the regular expression lacks the g flag
transformBranch_FirstOnly(branch, separator) ==
    LET first == IF \E i \in DOMAIN branch : branch[i] = "/"
                 THEN CHOOSE i \in DOMAIN branch :
                        /\ branch[i] = "/"
                        /\ \A j \in 1..(i - 1) : branch[j] # "/"
                 ELSE 0
    IN IF separator = "slash" THEN branch
       ELSE [i \in DOMAIN branch |->
                IF i = first
                THEN (IF separator = "hyphen" THEN "-" ELSE "_")
                ELSE branch[i]]

\* expander.ts 6-14
transformBranch(branch, separator) ==
    IF separator = "hyphen"
    THEN [i \in DOMAIN branch |-> IF branch[i] = "/" THEN "-" ELSE branch[i]]
    ELSE IF separator = "underscore"
    THEN [i \in DOMAIN branch |-> IF branch[i] = "/" THEN "_" ELSE branch[i]]
    ELSE branch

\* expander.ts 32-41: the flat variable map of the path template
flattenContext(context, transformedBranch) ==
    [k \in {"${{ original.path }}", "${{ original.basename }}",
            "${{ worktree.branch }}"} |->
        CASE k = "${{ original.path }}"     -> context.original.path
          [] k = "${{ original.basename }}" -> context.original.basename
          [] k = "${{ worktree.branch }}"   -> transformedBranch]

\* faulty variant: the branch is substituted as it is
expandWorktreeTemplate_RawBranch(template, context, separator) ==
    expandTemplate(template, flattenContext(context, context.worktree.branch))

\* expander.ts 46-54
expandWorktreeTemplate(template, context, separator) ==
    LET transformedBranch == transformBranch(context.worktree.branch, separator)
        variables == flattenContext(context, transformedBranch)
    IN expandTemplate(template, variables)

\* The contexts of one use: the main tree is /home/foo, the worktree /home/wt.
MainTreePath == <<"/", "home", "/", "foo">>
WorktreeTemplateContext(branch) ==
    [original |-> [path |-> MainTreePath, basename |-> <<"foo">>],
     worktree |-> [branch |-> branch]]
HookContext(branch) ==
    [original |-> [path |-> MainTreePath, basename |-> <<"foo">>],
     worktree |-> [path |-> <<"/", "home", "/", "wt">>, basename |-> <<"wt">>,
                   branch |-> branch]]

\* The templates expanded: the default path template, the branch alone, one
\* that names the hook-only variables, one without placeholder.
TemplateChoices ==
    { DEFAULT_CONFIG.worktree.template[1],
      <<"${{ worktree.branch }}">>,
      <<"${{ worktree.path }}", ":", "${{ worktree.basename }}">>,
      <<"plain text">> }

InitTemplate ==
    /\ \E b \in Branches, sep \in Separators, t \in TemplateChoices :
          tp = [branch |-> b, separator |-> sep, template |-> t,
                transformed |-> None, path |-> None, command |-> None]
    /\ ExecIdle /\ LoadIdle /\ ExpandIdle /\ AddIdle /\ RemoveIdle /\ FsIdle
    /\ RunIdle /\ StoreIdle

\* transformBranch(branch, separator) is called
TransformBranch ==
    /\ tp # <<>> /\ tp.transformed = None
    /\ tp' = [tp EXCEPT !.transformed = Some(transformBranch(tp.branch, tp.separator))]
    /\ UNCHANGED <<execVars, loadVars, xp, cmd, rmv, fs, rs, md>>

\* expandWorktreeTemplate(template, context, separator) is called
ExpandWorktreeTemplate ==
    /\ tp # <<>> /\ tp.path = None
    /\ tp' = [tp EXCEPT !.path =
                 Some(expandWorktreeTemplate(tp.template,
                                             WorktreeTemplateContext(tp.branch),
                                             tp.separator))]
    /\ UNCHANGED <<execVars, loadVars, xp, cmd, rmv, fs, rs, md>>

\* expandHookCommand(template, context) is called
ExpandHookCommand ==
    /\ tp # <<>> /\ tp.command = None
    /\ tp' = [tp EXCEPT !.command =
                 Some(expandHookCommand(tp.template, HookContext(tp.branch)))]
    /\ UNCHANGED <<execVars, loadVars, xp, cmd, rmv, fs, rs, md>>

NextTemplate ==
    \/ TransformBranch
    \/ ExpandWorktreeTemplate
    \/ ExpandHookCommand

SpecTemplate == InitTemplate /\ [][NextTemplate]_vars

\* --------------------------------------- expandTemplate, character by character
\* Here a string is a sequence of elements; "$", "{", "}", blank and tab are
\* elements of their own, any other element is a piece of text holding none
\* of them.
\* most segments (pieces of text or placeholders) a template is written with
MaxSegments == 2

WhiteSpace == {" ", "\t"}

\* String.prototype.trim
RECURSIVE trimStart(_)
trimStart(str) ==
    IF str # <<>> /\ Head(str) \in WhiteSpace THEN trimStart(Tail(str)) ELSE str
RECURSIVE trimEnd(_)
trimEnd(str) ==
    IF str # <<>> /\ str[Len(str)] \in WhiteSpace
    THEN trimEnd(SubSeq(str, 1, Len(str) - 1))
    ELSE str
trim(str) == trimEnd(trimStart(str))

\* What a plain object inherits from Object.prototype: reading one of these
\* keys from an object that has no such entry of its own gives a function or
\* an object, which String.prototype.replace turns into a string.
ObjectPrototype ==
    (<<"constructor">> :> <<"function Object() { [native code] }">>)
    @@ (<<"toString">> :> <<"function toString() { [native code] }">>)
    @@ (<<"__proto__">> :> <<"[object Object]">>)

\* expander.ts 24-25: the callback of replace,  variables[trimmedKey] ?? ""
replacement(variables, key) ==
    LET trimmedKey == trim(key) IN
    IF trimmedKey \in DOMAIN variables THEN variables[trimmedKey]
    ELSE IF trimmedKey \in DOMAIN ObjectPrototype THEN ObjectPrototype[trimmedKey]
    ELSE <<>>

\* The position of the first "}" of str at or after i (Len(str) + 1 if none).
RECURSIVE firstBrace(_, _)
firstBrace(str, i) ==
    IF i > Len(str) \/ str[i] = "}" THEN i ELSE firstBrace(str, i + 1)

\* expander.ts 23: the regular expression  \$\{\{\s*([^}]+)\s*\}\}  matches at
\* position i when "${{" stands there, at least one element that is not "}"
\* follows, and the first "}" after it is followed by another "}".
matchesAt(str, i) ==
    LET j == firstBrace(str, i + 3) IN
    /\ i + 2 <= Len(str)
    /\ str[i] = "$" /\ str[i + 1] = "{" /\ str[i + 2] = "{"
    /\ j > i + 3
    /\ j + 1 <= Len(str) /\ str[j + 1] = "}"

\* expander.ts 23-26: replace with the g flag, scanning from position i; the
\* text of a match is replaced, the scan goes on behind it.
RECURSIVE replaceFrom(_, _, _)
replaceFrom(str, variables, i) ==
    IF i > Len(str) THEN <<>>
    ELSE IF matchesAt(str, i)
    THEN LET j == firstBrace(str, i + 3) IN
         replacement(variables, SubSeq(str, i + 3, j - 1))
             \o replaceFrom(str, variables, j + 2)
    ELSE <<str[i]>> \o replaceFrom(str, variables, i + 1)

\* faulty variant: the result of the replacement is scanned once more
expandTemplateChars_Rescans(template, variables) ==
    replaceFrom(replaceFrom(template, variables, 1), variables, 1)

\* expandTemplate (expander.ts 19-27) on a string given character-wise
expandTemplateChars(template, variables) == replaceFrom(template, variables, 1)

\* The variable maps expandTemplate is called with: an empty one, one with
\* plain values, one whose values are themselves written like placeholders
\* (a branch named "${{ a.b }}", a directory named "x${{foo}}").
VariableMaps ==
    { <<>>,
      (<<"foo">> :> <<"bar">>) @@ (<<"a.b">> :> <<"val">>),
      (<<"foo">> :> <<"$", "{", "{", " ", "a.b", " ", "}", "}">>)
         @@ (<<"a.b">> :> <<"x", "$", "{", "{", "foo", "}", "}">>) }

\* The keys written in placeholders: two that the second map holds, one that
\* no map holds, one that no map holds but every object inherits.
WrittenKeys == {<<"foo">>, <<"a.b">>, <<"unknown">>, <<"constructor">>}

\* The segments a template is written with: a piece of text, or a
\* placeholder with some white space on either side of its key.
TextSegments == {[kind |-> "text", text |-> <<c>>] : c \in {"plain", "-", " ", "$", "}"}}
PlaceholderSegments ==
    {[kind |-> "placeholder", left |-> w[1], key |-> k, right |-> w[2]] :
        k \in WrittenKeys,
        w \in {<<<<>>, <<>>>>, <<<<" ">>, <<" ">>>>,
                <<<<" ", " ">>, <<"\t">>>>, <<<<>>, <<" ", " ">>>>}}
Segments == TextSegments \cup PlaceholderSegments

\* the string a segment stands for
Written(seg) ==
    IF seg.kind = "text" THEN seg.text
    ELSE <<"$", "{", "{">> \o seg.left \o seg.key \o seg.right \o <<"}", "}">>

RECURSIVE WrittenAll(_)
WrittenAll(segs) ==
    IF segs = <<>> THEN <<>> ELSE Written(Head(segs)) \o WrittenAll(Tail(segs))

InitExpand ==
    /\ \E n \in 0..MaxSegments : \E segs \in [1..n -> Segments] :
          \E variables \in VariableMaps :
             xp = [segments |-> segs, template |-> WrittenAll(segs),
                   variables |-> variables, out |-> None]
    /\ ExecIdle /\ LoadIdle /\ TemplateIdle /\ AddIdle /\ RemoveIdle /\ FsIdle
    /\ RunIdle /\ StoreIdle

\* expandTemplate(template, variables) is called and returns
ExpandTemplate ==
    /\ xp # <<>> /\ xp.out = None
    /\ xp' = [xp EXCEPT !.out = Some(expandTemplateChars(xp.template, xp.variables))]
    /\ UNCHANGED <<execVars, loadVars, tp, cmd, rmv, fs, rs, md>>

NextExpand == ExpandTemplate

SpecExpand == InitExpand /\ [][NextExpand]_vars

\* ------------------------------------------------------------ the add command
\* node:path on element sequences: "/" is an element of its own; "../" as
\* the first element of a relative path is one step up.
lastSlash(p) ==
    IF \E i \in DOMAIN p : p[i] = "/"
    THEN CHOOSE i \in DOMAIN p : p[i] = "/" /\ \A j \in (i + 1)..Len(p) : p[j] # "/"
    ELSE 0
basename(p) == SubSeq(p, lastSlash(p) + 1, Len(p))
dirname(p) == SubSeq(p, 1, lastSlash(p) - 1)
resolve(from, to) ==
    IF isAbsolute(to) THEN to
    ELSE IF to # <<>> /\ Head(to) = "../" THEN dirname(from) \o <<"/">> \o Tail(to)
    ELSE from \o <<"/">> \o to

\* JavaScript truthiness of an optional string (--desc, --tag)
Given(opt) == opt # None /\ opt[1] # <<>>

\* String.prototype.split(",")
RECURSIVE split(_)
split(str) ==
    IF \E i \in DOMAIN str : str[i] = ","
    THEN LET i == CHOOSE k \in DOMAIN str :
                    str[k] = "," /\ \A j \in 1..(k - 1) : str[j] # ","
         IN <<SubSeq(str, 1, i - 1)>> \o split(SubSeq(str, i + 1, Len(str)))
    ELSE <<str>>

\* add.ts 141-146: the tags of --tag
parseTags(tag) ==
    IF Given(tag)
    THEN LET pieces == split(tag[1])
             trimmed == [i \in DOMAIN pieces |-> trim(pieces[i])]
         IN SelectSeq(trimmed, LAMBDA t : Len(t) > 0)
    ELSE <<>>

\* A run step of a hook list of the add command.
RunStep(name, command) == [NoAction(name) EXCEPT !.run = Str(command)]

\* The hook lists a Config holds for a phase of add: none, one step, two.
AddHookLists ==
    { <<>>,
      <<RunStep("1", <<"echo ", "${{ worktree.path }}">>)>>,
      <<RunStep("1", <<"echo ", "${{ worktree.branch }}">>),
        RunStep("2", <<"ls ", "${{ worktree.basename }}">>)>> }

\* The path templates of the Config: the default one and an absolute one.
AddTemplates ==
    { DEFAULT_CONFIG.worktree.template[1],
      <<"/", "wts", "/", "${{ worktree.branch }}">> }

\* add.ts 45-53
templateContext(c) == WorktreeTemplateContext(c.branch)

\* add.ts 56-60
worktreePath(c) == expandWorktreeTemplate(c.template, templateContext(c), c.separator)

\* add.ts 63
worktreeAbsolutePath(c) == resolve(MainTreePath, worktreePath(c))

\* add.ts 67-77
preHookContext(c) ==
    [original |-> [path |-> MainTreePath, basename |-> basename(MainTreePath)],
     worktree |-> [path |-> worktreeAbsolutePath(c),
                   basename |-> basename(worktreeAbsolutePath(c)),
                   branch |-> c.branch]]

\* add.ts 109-119
postHookContext(c) ==
    [original |-> [path |-> MainTreePath, basename |-> basename(MainTreePath)],
     worktree |-> [path |-> worktreeAbsolutePath(c),
                   basename |-> basename(worktreeAbsolutePath(c)),
                   branch |-> c.branch]]

\* The action calls executeHooks makes on a list of run steps when it goes
\* as far as step k.
hookCalls(h, list, context, k) ==
    [i \in 1..k |-> ActionCall(i, list[i], h, context)]

\* One stage of the command, as the log keeps it.
StageEvent(stage, ok, context, calls) ==
    [stage |-> stage, ok |-> ok, context |-> context, calls |-> calls]
NoContext == <<>>

\* faulty variant: a failed phase is reported and the command goes on
onHookResult_GoesOn(success, next) == [pc |-> next, exitCode |-> None]

\* add.ts 87-92, 129-134: a failed phase ends the process with code 1
onHookResult(success, next) ==
    IF ~success THEN [pc |-> "exited", exitCode |-> Some(1)]
    ELSE [pc |-> next, exitCode |-> None]

InitAdd ==
    /\ \E b \in {<<"main">>, <<"feature", "/", "add-cart">>},
          t \in AddTemplates, sep \in {"hyphen", "slash"},
          pre \in AddHookLists, post \in AddHookLists,
          desc \in {None, Some(<<>>), Some(<<"note">>)},
          tag \in {None, Some(<<>>), Some(<<"a", ",", " ", "b", ",", " ">>)} :
          cmd = [branch |-> b, template |-> t, separator |-> sep,
                 pre |-> pre, post |-> post, desc |-> desc, tag |-> tag,
                 pc |-> "pre", events |-> <<>>, worktree |-> None,
                 metadata |-> None, exitCode |-> None]
    /\ ExecIdle /\ LoadIdle /\ TemplateIdle /\ ExpandIdle /\ RemoveIdle /\ FsIdle
    /\ RunIdle /\ StoreIdle

\* add.ts 80-93: the pre-worktree-add phase, when the list is not empty.
\* executeHooks succeeds (k = 0) or fails at step k.
RunPreHooks ==
    /\ cmd # <<>> /\ cmd.pc = "pre" /\ Len(cmd.pre) > 0
    /\ \E k \in 0..Len(cmd.pre) :
         LET ok == k = 0
             calls == hookCalls("pre-worktree-add", cmd.pre, preHookContext(cmd),
                                IF ok THEN Len(cmd.pre) ELSE k)
         IN cmd' = [cmd EXCEPT
                      !.events = Append(@, StageEvent("pre-worktree-add", ok,
                                                      preHookContext(cmd), calls)),
                      !.pc = onHookResult(ok, "create").pc,
                      !.exitCode = onHookResult(ok, "create").exitCode]
    /\ UNCHANGED <<execVars, loadVars, tp, xp, rmv, fs, rs, md>>

\* add.ts 80: no pre-worktree-add step
SkipPreHooks ==
    /\ cmd # <<>> /\ cmd.pc = "pre" /\ Len(cmd.pre) = 0
    /\ cmd' = [cmd EXCEPT !.pc = "create"]
    /\ UNCHANGED <<execVars, loadVars, tp, xp, rmv, fs, rs, md>>

\* add.ts 95-98: git worktree add succeeds
CreateWorktree ==
    /\ cmd # <<>> /\ cmd.pc = "create"
    /\ cmd' = [cmd EXCEPT
                 !.events = Append(@, StageEvent("create", TRUE, NoContext, <<>>)),
                 !.worktree = Some(worktreePath(cmd)),
                 !.pc = "post"]
    /\ UNCHANGED <<execVars, loadVars, tp, xp, rmv, fs, rs, md>>

\* add.ts 99-106: addWorktree throws
CreateWorktreeFails ==
    /\ cmd # <<>> /\ cmd.pc = "create"
    /\ cmd' = [cmd EXCEPT
                 !.events = Append(@, StageEvent("create", FALSE, NoContext, <<>>)),
                 !.pc = "exited",
                 !.exitCode = Some(1)]
    /\ UNCHANGED <<execVars, loadVars, tp, xp, rmv, fs, rs, md>>

\* add.ts 122-135: the post-worktree-add phase, when the list is not empty
RunPostHooks ==
    /\ cmd # <<>> /\ cmd.pc = "post" /\ Len(cmd.post) > 0
    /\ \E k \in 0..Len(cmd.post) :
         LET ok == k = 0
             calls == hookCalls("post-worktree-add", cmd.post, postHookContext(cmd),
                                IF ok THEN Len(cmd.post) ELSE k)
         IN cmd' = [cmd EXCEPT
                      !.events = Append(@, StageEvent("post-worktree-add", ok,
                                                      postHookContext(cmd), calls)),
                      !.pc = onHookResult(ok, "metadata").pc,
                      !.exitCode = onHookResult(ok, "metadata").exitCode]
    /\ UNCHANGED <<execVars, loadVars, tp, xp, rmv, fs, rs, md>>

\* add.ts 122: no post-worktree-add step
SkipPostHooks ==
    /\ cmd # <<>> /\ cmd.pc = "post" /\ Len(cmd.post) = 0
    /\ cmd' = [cmd EXCEPT !.pc = "metadata"]
    /\ UNCHANGED <<execVars, loadVars, tp, xp, rmv, fs, rs, md>>

\* add.ts 138-151: --desc or --tag is given and the metadata is saved
SaveMetadata ==
    /\ cmd # <<>> /\ cmd.pc = "metadata"
    /\ Given(cmd.desc) \/ Given(cmd.tag)
    /\ cmd' = [cmd EXCEPT
                 !.events = Append(@, StageEvent("metadata", TRUE, NoContext, <<>>)),
                 !.metadata = Some([path |-> worktreeAbsolutePath(cmd),
                                    description |-> IF cmd.desc = None THEN <<>>
                                                    ELSE cmd.desc[1],
                                    tags |-> parseTags(cmd.tag)]),
                 !.pc = "returned",
                 !.exitCode = Some(0)]
    /\ UNCHANGED <<execVars, loadVars, tp, xp, rmv, fs, rs, md>>

\* add.ts 152-157: loading or saving the metadata throws; a warning only
SaveMetadataFails ==
    /\ cmd # <<>> /\ cmd.pc = "metadata"
    /\ Given(cmd.desc) \/ Given(cmd.tag)
    /\ cmd' = [cmd EXCEPT
                 !.events = Append(@, StageEvent("metadata", FALSE, NoContext, <<>>)),
                 !.pc = "returned",
                 !.exitCode = Some(0)]
    /\ UNCHANGED <<execVars, loadVars, tp, xp, rmv, fs, rs, md>>

\* add.ts 138: neither --desc nor --tag
SkipMetadata ==
    /\ cmd # <<>> /\ cmd.pc = "metadata"
    /\ ~(Given(cmd.desc) \/ Given(cmd.tag))
    /\ cmd' = [cmd EXCEPT !.pc = "returned", !.exitCode = Some(0)]
    /\ UNCHANGED <<execVars, loadVars, tp, xp, rmv, fs, rs, md>>

NextAdd ==
    \/ RunPreHooks
    \/ SkipPreHooks
    \/ CreateWorktree
    \/ CreateWorktreeFails
    \/ RunPostHooks
    \/ SkipPostHooks
    \/ SaveMetadata
    \/ SaveMetadataFails
    \/ SkipMetadata

SpecAdd == InitAdd /\ [][NextAdd]_vars

\* --------------------------------------------------------- the remove command
\* node:path normalize on element sequences: a "/" that follows a "/" goes.
RECURSIVE normalize(_)
normalize(p) ==
    IF Len(p) < 2 THEN p
    ELSE IF p[1] = "/" /\ p[2] = "/" THEN normalize(Tail(p))
    ELSE <<p[1]>> \o normalize(Tail(p))

\* git worktree list: the main tree, a worktree on a branch, a detached one.
WorktreeA == <<"/", "home", "/", "wt-a">>
WorktreeB == <<"/", "home", "/", "wt-b">>
listWorktrees ==
    << [path |-> MainTreePath, branch |-> "main"],
       [path |-> WorktreeA, branch |-> "feature/a"],
       [path |-> WorktreeB, branch |-> ""] >>
AllWorktrees == 1..Len(listWorktrees)

\* git.ts 236-246: the first worktree on the branch, 0 when there is none
getWorktreeByBranchName(branchName, worktrees) ==
    IF \E i \in DOMAIN worktrees : worktrees[i].branch = branchName
    THEN CHOOSE i \in DOMAIN worktrees :
            /\ worktrees[i].branch = branchName
            /\ \A j \in 1..(i - 1) : worktrees[j].branch # branchName
    ELSE 0

\* git.ts 254-271: by full path first, then by basename; 0 when none
getWorktreeByPath(path, worktrees) ==
    LET full == {i \in DOMAIN worktrees : normalize(worktrees[i].path) = normalize(path)}
        base == {i \in DOMAIN worktrees : basename(worktrees[i].path) = path}
        least(S) == CHOOSE i \in S : \A j \in S : i <= j
    IN IF full # {} THEN least(full)
       ELSE IF base # {} THEN least(base)
       ELSE 0

\* A metadata object: worktree path -> entry.
MetadataEntry == [description |-> <<"note">>, tags |-> <<"review">>]
MetadataOf(paths) == [p \in paths |-> MetadataEntry]
NoMetadata == MetadataOf({})

\* store.ts 89-95
deleteWorktreeMetadata(metadata, path) ==
    [p \in DOMAIN metadata \ {path} |-> metadata[p]]

\* How the target is named on the command line.
Selections ==
    {[mode |-> "branch", arg |-> b, tags |-> 0, matching |-> {}] :
        b \in {"main", "feature/a", "nope"}}
    \cup {[mode |-> "path", arg |-> p, tags |-> 0, matching |-> {}] :
        p \in {WorktreeA, <<"/", "home", "/", "/", "wt-a">>, <<"wt-b">>,
               MainTreePath, <<"nope">>}}
    \cup {[mode |-> "interactive", arg |-> <<>>, tags |-> 0, matching |-> {}]}
    \cup {[mode |-> "tag", arg |-> <<>>, tags |-> n, matching |-> m] :
        n \in {0, 1},
        m \in {{}, {WorktreeA}, {WorktreeA, WorktreeB},
               {MainTreePath, WorktreeA, WorktreeB}}}

\* The directories the command is run from: the main tree, the root of a
\* worktree, a directory inside a worktree.
CurrentDirs == {MainTreePath, WorktreeA, WorktreeA \o <<"/", "src">>}

\* One stage of the command for one worktree, as the log keeps it: whether it
\* went well, what git reported, what the user was asked and answered.
RemoveEvent(stage, target, ok, facts, prompts) ==
    [stage |-> stage, target |-> target, ok |-> ok, facts |-> facts, prompts |-> prompts]
Asked(question, answer) == [question |-> question, answer |-> answer]

InitRemove ==
    /\ \E sel \in Selections, cwd \in CurrentDirs, force \in BOOLEAN,
          branchOption \in {"none", "delete-branch", "keep-branch"},
          deleteBranchConfig \in DeleteBranches,
          pre \in {<<>>, <<RunStep("1", <<"docker-compose down">>)>>},
          post \in {<<>>, <<RunStep("1", <<"echo removed">>)>>},
          stored \in {{}, {MainTreePath, WorktreeA, WorktreeB}} :
          rmv = [selection |-> sel, currentDir |-> normalize(cwd), force |-> force,
                 deleteBranchOption |-> branchOption = "delete-branch",
                 keepBranchOption |-> branchOption = "keep-branch",
                 deleteBranch |-> deleteBranchConfig,
                 pre |-> pre, post |-> post,
                 pc |-> "load", targets |-> <<>>, ti |-> 0,
                 effectiveForce |-> FALSE,
                 worktrees |-> AllWorktrees,
                 branches |-> {"main", "feature/a"},
                 store |-> MetadataOf(stored),
                 metadata |-> NoMetadata, updatedMetadata |-> NoMetadata,
                 events |-> <<>>, exitCode |-> None]
    /\ ExecIdle /\ LoadIdle /\ TemplateIdle /\ ExpandIdle /\ AddIdle /\ FsIdle
    /\ RunIdle /\ StoreIdle

isMainPath(i) == normalize(listWorktrees[i].path) = normalize(MainTreePath)
isCurrentDir(i, currentDir) == normalize(listWorktrees[i].path) = currentDir

\* the members of a set of worktree indexes, in list order
RECURSIVE inOrder(_)
inOrder(S) ==
    IF S = {} THEN <<>>
    ELSE LET least == CHOOSE i \in S : \A j \in S : i <= j
         IN <<least>> \o inOrder(S \ {least})

\* remove.ts 397-416, 422-441: the checks on the worktree found by -b or -w;
\* the exit code when it is refused, None when it is accepted
refuseTarget(found, currentDir) ==
    IF found = 0 THEN Some(1)
    ELSE IF isMainPath(found) THEN Some(1)
    ELSE IF isCurrentDir(found, currentDir) THEN Some(1)
    ELSE None

\* remove.ts 446-450: the worktrees offered for interactive selection
removableWorktrees(currentDir) ==
    {i \in AllWorktrees : ~isMainPath(i) /\ ~isCurrentDir(i, currentDir)}

\* remove.ts 793: the paths of the metadata entries that carry all the given
\* tags, among the paths tagged so
filterWorktreesByTags(metadata, tagged) == tagged \cap DOMAIN metadata

\* remove.ts 796-806: the worktrees a --tag run removes
targetWorktrees(matchingPaths, currentDir) ==
    {i \in AllWorktrees :
        /\ listWorktrees[i].path \in matchingPaths
        /\ ~isMainPath(i)
        /\ ~isCurrentDir(i, currentDir)}

RemoveOthers == <<execVars, loadVars, tp, xp, cmd, fs, rs, md>>

\* the process ends with the given code
exitWith(r, code) == [r EXCEPT !.pc = "exited", !.exitCode = Some(code)]

\* removeSingleWorktree is entered for the given targets
startTargets(r, targets) == [r EXCEPT !.targets = targets, !.ti = 1, !.pc = "confirm"]

\* remove.ts 818-831, 851-865: what the command does with the status and
\* metadata removeSingleWorktree returned. A --tag run takes the metadata and
\* goes on to the next worktree; a single run exits with 1 on "failed".
afterRemoveSingle(r, status, metadata) ==
    IF r.selection.mode = "tag"
    THEN IF r.ti < Len(r.targets)
         THEN [r EXCEPT !.metadata = metadata, !.ti = r.ti + 1, !.pc = "confirm",
                        !.effectiveForce = FALSE]
         ELSE [r EXCEPT !.metadata = metadata, !.pc = "returned", !.exitCode = Some(0)]
    ELSE IF status = "failed" THEN exitWith(r, 1)
         ELSE [r EXCEPT !.pc = "returned", !.exitCode = Some(0)]

\* remove.ts 772-777: the metadata is loaded; a load error leaves it empty
LoadMetadata ==
    /\ rmv # <<>> /\ rmv.pc = "load"
    /\ \E ok \in BOOLEAN :
         rmv' = [rmv EXCEPT !.metadata = IF ok THEN rmv.store ELSE NoMetadata,
                            !.pc = "select"]
    /\ UNCHANGED RemoveOthers

\* remove.ts 785-811: --tag
SelectByTag ==
    /\ rmv # <<>> /\ rmv.pc = "select" /\ rmv.selection.mode = "tag"
    /\ LET matchingPaths == filterWorktreesByTags(rmv.metadata, rmv.selection.matching)
           targets == targetWorktrees(matchingPaths, rmv.currentDir)
       IN
       rmv' = IF rmv.selection.tags = 0 THEN exitWith(rmv, 0)
              ELSE IF targets = {} THEN exitWith(rmv, 0)
              ELSE startTargets(rmv, inOrder(targets))
    /\ UNCHANGED RemoveOthers

\* remove.ts 394-417: -b
SelectByBranch ==
    /\ rmv # <<>> /\ rmv.pc = "select" /\ rmv.selection.mode = "branch"
    /\ LET found == getWorktreeByBranchName(rmv.selection.arg, listWorktrees)
           refused == refuseTarget(found, rmv.currentDir)
       IN rmv' = IF refused # None THEN exitWith(rmv, refused[1])
                 ELSE startTargets(rmv, <<found>>)
    /\ UNCHANGED RemoveOthers

\* remove.ts 419-442: -w
SelectByPath ==
    /\ rmv # <<>> /\ rmv.pc = "select" /\ rmv.selection.mode = "path"
    /\ LET found == getWorktreeByPath(rmv.selection.arg, listWorktrees)
           refused == refuseTarget(found, rmv.currentDir)
       IN rmv' = IF refused # None THEN exitWith(rmv, refused[1])
                 ELSE startTargets(rmv, <<found>>)
    /\ UNCHANGED RemoveOthers

\* remove.ts 444-486: interactive selection among the removable worktrees
SelectInteractive ==
    /\ rmv # <<>> /\ rmv.pc = "select" /\ rmv.selection.mode = "interactive"
    /\ IF removableWorktrees(rmv.currentDir) = {}
       THEN rmv' = exitWith(rmv, 0)
       ELSE \E selected \in removableWorktrees(rmv.currentDir) :
               rmv' = startTargets(rmv, <<selected>>)
    /\ UNCHANGED RemoveOthers

\* the worktree removeSingleWorktree is working on
Target(r) == r.targets[r.ti]

\* remove.ts 549-559: without --force the user is asked; "no" skips
ConfirmRemoval ==
    /\ rmv # <<>> /\ rmv.pc = "confirm"
    /\ IF rmv.force
       THEN rmv' = [rmv EXCEPT !.pc = "pre"]
       ELSE \E proceed \in BOOLEAN :
              LET asked == [rmv EXCEPT !.events =
                               Append(@, RemoveEvent("confirm", Target(rmv), proceed, {},
                                                     <<Asked("remove", proceed)>>))]
              IN rmv' = IF proceed THEN [asked EXCEPT !.pc = "pre"]
                        ELSE afterRemoveSingle(asked, "skipped", rmv.metadata)
    /\ UNCHANGED RemoveOthers

\* faulty variant: a failed pre-worktree-remove phase does not stop the removal
RunPreRemoveHooks_GoesOn ==
    /\ rmv # <<>> /\ rmv.pc = "pre" /\ Len(rmv.pre) > 0
    /\ \E ok \in BOOLEAN :
         rmv' = [rmv EXCEPT !.events =
                    Append(@, RemoveEvent("pre-worktree-remove", Target(rmv), ok, {}, <<>>)),
                 !.pc = "safety"]
    /\ UNCHANGED RemoveOthers

\* remove.ts 575-588: the pre-worktree-remove phase, when the list is not
\* empty; a failure returns "failed" with the metadata as it was
RunPreRemoveHooks ==
    /\ rmv # <<>> /\ rmv.pc = "pre" /\ Len(rmv.pre) > 0
    /\ \E ok \in BOOLEAN :
         LET ran == [rmv EXCEPT !.events =
                        Append(@, RemoveEvent("pre-worktree-remove", Target(rmv), ok, {}, <<>>))]
         IN rmv' = IF ok THEN [ran EXCEPT !.pc = "safety"]
                   ELSE afterRemoveSingle(ran, "failed", rmv.metadata)
    /\ UNCHANGED RemoveOthers

\* remove.ts 575: no pre-worktree-remove step
SkipPreRemoveHooks ==
    /\ rmv # <<>> /\ rmv.pc = "pre" /\ Len(rmv.pre) = 0
    /\ rmv' = [rmv EXCEPT !.pc = "safety"]
    /\ UNCHANGED RemoveOthers

\* faulty variant: unpushed commits are not checked
checkSafetyAndConfirm_UncommittedOnly(force, uncommitted, unpushed, first, second) ==
    IF force THEN [prompts |-> <<>>, aborted |-> FALSE, force |-> TRUE]
    ELSE [prompts |-> IF uncommitted THEN <<Asked("uncommitted", first)>> ELSE <<>>,
          aborted |-> uncommitted /\ ~first,
          force |-> uncommitted /\ first]

\* remove.ts 494-527: the prompts shown for a worktree with the given state
\* and the answers given, whether the run is aborted, and the force returned
checkSafetyAndConfirm(force, uncommitted, unpushed, first, second) ==
    IF force THEN [prompts |-> <<>>, aborted |-> FALSE, force |-> TRUE]
    ELSE LET p1 == IF uncommitted THEN <<Asked("uncommitted", first)>> ELSE <<>>
             stop1 == uncommitted /\ ~first
             p2 == IF ~stop1 /\ unpushed THEN <<Asked("unpushed", second)>> ELSE <<>>
             stop2 == ~stop1 /\ unpushed /\ ~second
         IN [prompts |-> p1 \o p2,
             aborted |-> stop1 \/ stop2,
             force |-> ~(stop1 \/ stop2) /\ (uncommitted \/ unpushed)]

\* the state of the worktree as git reports it (git.ts 278-315)
safetyFacts(uncommitted, unpushed) ==
    (IF uncommitted THEN {"uncommitted"} ELSE {}) \cup (IF unpushed THEN {"unpushed"} ELSE {})

\* remove.ts 591: the safety checks; declining a warning exits with 0
CheckSafety ==
    /\ rmv # <<>> /\ rmv.pc = "safety"
    /\ \E uncommitted \in BOOLEAN, unpushed \in BOOLEAN, first \in BOOLEAN, second \in BOOLEAN :
         LET checked == checkSafetyAndConfirm(rmv.force, uncommitted, unpushed, first, second)
             logged == [rmv EXCEPT !.events =
                           Append(@, RemoveEvent("safety", Target(rmv), ~checked.aborted,
                                                 IF rmv.force THEN {}
                                                 ELSE safetyFacts(uncommitted, unpushed),
                                                 checked.prompts))]
         IN rmv' = IF checked.aborted THEN exitWith(logged, 0)
                   ELSE [logged EXCEPT !.effectiveForce = checked.force, !.pc = "remove"]
    /\ UNCHANGED RemoveOthers

\* remove.ts 594-607, git.ts 323-332: git worktree remove succeeds
RemoveWorktree ==
    /\ rmv # <<>> /\ rmv.pc = "remove"
    /\ rmv' = [rmv EXCEPT !.worktrees = @ \ {Target(rmv)},
                          !.events = Append(@, RemoveEvent("remove", Target(rmv), TRUE, {}, <<>>)),
                          !.pc = "branch"]
    /\ UNCHANGED RemoveOthers

\* remove.ts 601-606: git worktree remove fails; "failed", metadata as it was
RemoveWorktreeFails ==
    /\ rmv # <<>> /\ rmv.pc = "remove"
    /\ rmv' = afterRemoveSingle(
                 [rmv EXCEPT !.events =
                     Append(@, RemoveEvent("remove", Target(rmv), FALSE, {}, <<>>))],
                 "failed", rmv.metadata)
    /\ UNCHANGED RemoveOthers

\* remove.ts 676-684: the user is asked whether to delete the branch
asksBranchDeletion(branch, force, deleteBranchOption, keepBranchOption, deleteBranchConfig) ==
    /\ branch # ""
    /\ ~deleteBranchOption /\ ~keepBranchOption
    /\ deleteBranchConfig = "ask"
    /\ ~force

\* remove.ts 659-686: whether the branch is deleted
shouldDelete(branch, force, deleteBranchOption, keepBranchOption, deleteBranchConfig, answer) ==
    IF branch = "" THEN FALSE
    ELSE IF deleteBranchOption THEN TRUE
    ELSE IF keepBranchOption THEN FALSE
    ELSE IF deleteBranchConfig = "always" THEN TRUE
    ELSE IF deleteBranchConfig = "never" THEN FALSE
    ELSE IF force THEN TRUE
    ELSE answer

\* remove.ts 610-619: handleBranchDeletion is called with the effective force,
\* a failed deletion is only a warning, then the entry is dropped from the
\* metadata in memory
HandleBranchDeletion ==
    /\ rmv # <<>> /\ rmv.pc = "branch"
    /\ \E answer \in BOOLEAN, deleted \in BOOLEAN :
         LET branch == listWorktrees[Target(rmv)].branch
             asks == asksBranchDeletion(branch, rmv.effectiveForce, rmv.deleteBranchOption,
                                        rmv.keepBranchOption, rmv.deleteBranch)
             delete == shouldDelete(branch, rmv.effectiveForce, rmv.deleteBranchOption,
                                    rmv.keepBranchOption, rmv.deleteBranch, answer)
             asked == IF asks
                      THEN <<RemoveEvent("ask-branch", Target(rmv), answer, {},
                                         <<Asked("delete-branch", answer)>>)>>
                      ELSE <<>>
             attempt == IF delete
                        THEN <<RemoveEvent("delete-branch", Target(rmv), deleted,
                                           IF rmv.effectiveForce THEN {"force"} ELSE {}, <<>>)>>
                        ELSE <<>>
         IN rmv' = [rmv EXCEPT
                      !.branches = IF delete /\ deleted THEN @ \ {branch} ELSE @,
                      !.events = @ \o asked \o attempt,
                      !.updatedMetadata =
                          deleteWorktreeMetadata(rmv.metadata, listWorktrees[Target(rmv)].path),
                      !.pc = "post"]
    /\ UNCHANGED RemoveOthers

\* remove.ts 622-635: the post-worktree-remove phase, when the list is not
\* empty; a failure returns "failed" before the metadata is saved
RunPostRemoveHooks ==
    /\ rmv # <<>> /\ rmv.pc = "post" /\ Len(rmv.post) > 0
    /\ \E ok \in BOOLEAN :
         LET ran == [rmv EXCEPT !.events =
                        Append(@, RemoveEvent("post-worktree-remove", Target(rmv), ok, {}, <<>>))]
         IN rmv' = IF ok THEN [ran EXCEPT !.pc = "save"]
                   ELSE afterRemoveSingle(ran, "failed", rmv.updatedMetadata)
    /\ UNCHANGED RemoveOthers

\* remove.ts 622: no post-worktree-remove step
SkipPostRemoveHooks ==
    /\ rmv # <<>> /\ rmv.pc = "post" /\ Len(rmv.post) = 0
    /\ rmv' = [rmv EXCEPT !.pc = "save"]
    /\ UNCHANGED RemoveOthers

\* remove.ts 638-646, store.ts 47-57: the metadata file is rewritten
SaveRemovedMetadata ==
    /\ rmv # <<>> /\ rmv.pc = "save"
    /\ rmv' = afterRemoveSingle(
                 [rmv EXCEPT !.store = rmv.updatedMetadata,
                             !.events = Append(@, RemoveEvent("save-metadata", Target(rmv),
                                                              TRUE, {}, <<>>))],
                 "success", rmv.updatedMetadata)
    /\ UNCHANGED RemoveOthers

\* faulty variant: a failed save ends the command with exit status 1
SaveRemovedMetadataFails_Fatal ==
    /\ rmv # <<>> /\ rmv.pc = "save"
    /\ rmv' = exitWith(
                 [rmv EXCEPT !.events = Append(@, RemoveEvent("save-metadata", Target(rmv),
                                                              FALSE, {}, <<>>))],
                 1)
    /\ UNCHANGED RemoveOthers

\* remove.ts 640-644: saving fails; a warning, and the run goes on
SaveRemovedMetadataFails ==
    /\ rmv # <<>> /\ rmv.pc = "save"
    /\ rmv' = afterRemoveSingle(
                 [rmv EXCEPT !.events = Append(@, RemoveEvent("save-metadata", Target(rmv),
                                                              FALSE, {}, <<>>))],
                 "success", rmv.updatedMetadata)
    /\ UNCHANGED RemoveOthers

NextRemove ==
    \/ LoadMetadata
    \/ SelectByTag
    \/ SelectByBranch
    \/ SelectByPath
    \/ SelectInteractive
    \/ ConfirmRemoval
    \/ RunPreRemoveHooks
    \/ SkipPreRemoveHooks
    \/ CheckSafety
    \/ RemoveWorktree
    \/ RemoveWorktreeFails
    \/ HandleBranchDeletion
    \/ RunPostRemoveHooks
    \/ SkipPostRemoveHooks
    \/ SaveRemovedMetadata
    \/ SaveRemovedMetadataFails

SpecRemove == InitRemove /\ [][NextRemove]_vars

\* ---------------------------------------------------------------- the commands
\* index.ts 32-35: one run of the program is one of the commands

InitCommands == InitAdd \/ InitRemove

NextCommands == NextAdd \/ NextRemove

SpecCommands == InitCommands /\ [][NextCommands]_vars

\* ------------------------------------------------------- the file actions
\* mkdirAction, removeAction and copyAction on a directory tree. A path is
\* the sequence of its names; the tree maps each path that exists to a
\* directory or to a file with its content.

MaxTargets == 2
MaxCalls == 2

DirNode == [kind |-> "dir", content |-> "", to |-> <<>>]
FileNode(content) == [kind |-> "file", content |-> content, to |-> <<>>]
\* a symbolic link and the path it holds
LinkNode(to) == [kind |-> "link", content |-> "", to |-> to]

OriginalDir == <<"repo">>
WorktreeDir == <<"wt">>

\* node:path join of a directory and a relative target
join(dir, target) == dir \o target

\* q is p or lies below p
startsWith(q, p) == Len(p) <= Len(q) /\ SubSeq(q, 1, Len(p)) = p

ancestors(p) == {SubSeq(p, 1, k) : k \in 1..(Len(p) - 1)}

isFile(tree, p) == p \in DOMAIN tree /\ tree[p].kind = "file"
isDirectory(tree, p) == p \in DOMAIN tree /\ tree[p].kind = "dir"

\* a regular file stands where a directory of the path should be
fileAbove(tree, p) == \E q \in ancestors(p) : isFile(tree, q)

\* the tree with the missing directories of p, and p itself, added
withDirectories(tree, paths) ==
    [q \in DOMAIN tree \cup paths |-> IF q \in DOMAIN tree THEN tree[q] ELSE DirNode]

\* faulty variant: mkdir without recursive
mkdir_NotRecursive(tree, p) ==
    IF p \in DOMAIN tree \/ \E q \in ancestors(p) : ~isDirectory(tree, q)
    THEN [tree |-> tree, ok |-> FALSE]
    ELSE [tree |-> withDirectories(tree, {p}), ok |-> TRUE]

\* mkdir.ts 16: mkdir(fullPath, {recursive: true}). ENOTDIR or EEXIST when a
\* file is in the way; an existing directory is left as it is.
mkdir(tree, p) ==
    IF fileAbove(tree, p) \/ isFile(tree, p)
    THEN [tree |-> tree, ok |-> FALSE]
    ELSE [tree |-> withDirectories(tree, ancestors(p) \cup {p}), ok |-> TRUE]

\* mkdir.ts 9-25: the targets in order; the first error ends the action
RECURSIVE mkdirAction(_, _, _)
mkdirAction(targets, workingDirectory, tree) ==
    IF targets = <<>> THEN [tree |-> tree, success |-> TRUE, attempted |-> 0]
    ELSE LET made == mkdir(tree, join(workingDirectory, Head(targets)))
         IN IF ~made.ok THEN [tree |-> made.tree, success |-> FALSE, attempted |-> 1]
            ELSE [mkdirAction(Tail(targets), workingDirectory, made.tree)
                    EXCEPT !.attempted = @ + 1]

\* the tree without p and everything below it
without(tree, p) == [q \in {r \in DOMAIN tree : ~startsWith(r, p)} |-> tree[q]]

\* faulty variant: rm without force
rm_NoForce(tree, p, enotdir) ==
    IF p \notin DOMAIN tree THEN [tree |-> tree, ok |-> FALSE]
    ELSE [tree |-> without(tree, p), ok |-> TRUE]

\* actions/remove.ts 16: rm(fullPath, {recursive: true, force: true}). A path
\* that does not exist is no error; when a regular file stands where a
\* directory of the path should be, the runtime either reports ENOTDIR or
\* treats the path as missing (enotdir tells which).
rm(tree, p, enotdir) ==
    IF fileAbove(tree, p) THEN [tree |-> tree, ok |-> ~enotdir]
    ELSE [tree |-> without(tree, p), ok |-> TRUE]

\* actions/remove.ts 9-25: the targets in order; the first error ends the action
RECURSIVE removeAction(_, _, _, _)
removeAction(targets, workingDirectory, tree, enotdir) ==
    IF targets = <<>> THEN [tree |-> tree, success |-> TRUE, attempted |-> 0]
    ELSE LET removed == rm(tree, join(workingDirectory, Head(targets)), enotdir)
         IN IF ~removed.ok THEN [tree |-> removed.tree, success |-> FALSE, attempted |-> 1]
            ELSE [removeAction(Tail(targets), workingDirectory, removed.tree, enotdir)
                    EXCEPT !.attempted = @ + 1]

\* the tree after everything at and below src was written at and below dst
copied(tree, src, dst) ==
    LET sources == {q \in DOMAIN tree : startsWith(q, src)}
        target(q) == dst \o SubSeq(q, Len(src) + 1, Len(q))
        written == {target(q) : q \in sources}
        base == withDirectories(tree, ancestors(dst))
    IN [r \in DOMAIN base \cup written |->
          IF r \in written
          THEN tree[CHOOSE q \in sources : target(q) = r]
          ELSE base[r]]

\* faulty variant: a source that does not exist is skipped
cp_IgnoresMissing(tree, src, dst) ==
    IF src \notin DOMAIN tree THEN [tree |-> tree, ok |-> TRUE]
    ELSE [tree |-> copied(tree, src, dst), ok |-> TRUE]

\* copy (part_011) 18: cp(sourcePath, destPath, {recursive: true, force: true}).
\* ENOENT when the source does not exist; an error when source and destination
\* are a directory and a file; otherwise the parent directories of the
\* destination are made, files are overwritten and directories merged.
cp(tree, src, dst) ==
    IF src \notin DOMAIN tree THEN [tree |-> tree, ok |-> FALSE]
    ELSE IF fileAbove(tree, dst) \/ (dst \in DOMAIN tree /\ tree[dst].kind # tree[src].kind)
    THEN [tree |-> tree, ok |-> FALSE]
    ELSE [tree |-> copied(tree, src, dst), ok |-> TRUE]

\* faulty variant: an error is remembered and the later targets are still copied
RECURSIVE copyAction_GoesOn(_, _, _, _)
copyAction_GoesOn(targets, original, worktree, tree) ==
    IF targets = <<>> THEN [tree |-> tree, success |-> TRUE, attempted |-> 0]
    ELSE LET done == cp(tree, join(original, Head(targets)), join(worktree, Head(targets)))
             later == copyAction_GoesOn(Tail(targets), original, worktree, done.tree)
         IN [tree |-> later.tree, success |-> done.ok /\ later.success,
             attempted |-> later.attempted + 1]

\* copy (part_011) 10-27: the targets in order; the first error ends the action
RECURSIVE copyAction(_, _, _, _)
copyAction(targets, original, worktree, tree) ==
    IF targets = <<>> THEN [tree |-> tree, success |-> TRUE, attempted |-> 0]
    ELSE LET done == cp(tree, join(original, Head(targets)), join(worktree, Head(targets)))
         IN IF ~done.ok THEN [tree |-> done.tree, success |-> FALSE, attempted |-> 1]
            ELSE [copyAction(Tail(targets), original, worktree, done.tree)
                    EXCEPT !.attempted = @ + 1]

\* node:path relative: the way from directory from to path to
relative(from, to) ==
    LET shared == {n \in 0..Len(from) : n <= Len(to) /\ SubSeq(from, 1, n) = SubSeq(to, 1, n)}
        common == CHOOSE n \in shared : \A m \in shared : m <= n
    IN [k \in 1..(Len(from) - common) |-> ".."] \o SubSeq(to, common + 1, Len(to))

\* faulty variant: an existing destination is replaced by the link
symlink_Overwrites(tree, to, p) ==
    IF ~isDirectory(tree, SubSeq(p, 1, Len(p) - 1))
    THEN [tree |-> tree, ok |-> FALSE]
    ELSE [tree |-> [q \in DOMAIN without(tree, p) \cup {p} |->
                      IF q = p THEN LinkNode(to) ELSE tree[q]],
          ok |-> TRUE]

\* link (actions/remove.ts) 53: symlink(relativePath, linkPath). EEXIST when
\* anything is at linkPath; ENOENT or ENOTDIR when its directory is not there.
symlink(tree, to, p) ==
    IF p \in DOMAIN tree \/ ~isDirectory(tree, SubSeq(p, 1, Len(p) - 1))
    THEN [tree |-> tree, ok |-> FALSE]
    ELSE [tree |-> [q \in DOMAIN tree \cup {p} |-> IF q = p THEN LinkNode(to) ELSE tree[q]],
          ok |-> TRUE]

\* link (actions/remove.ts) 37-62: for each target access(sourcePath), then a
\* link to it relative to the directory of linkPath; the first error ends
\* the action
RECURSIVE linkAction(_, _, _, _)
linkAction(targets, original, worktree, tree) ==
    IF targets = <<>> THEN [tree |-> tree, success |-> TRUE, attempted |-> 0]
    ELSE LET sourcePath == join(original, Head(targets))
             linkPath == join(worktree, Head(targets))
             relativePath == relative(SubSeq(linkPath, 1, Len(linkPath) - 1), sourcePath)
             linked == IF sourcePath \notin DOMAIN tree THEN [tree |-> tree, ok |-> FALSE]
                       ELSE symlink(tree, relativePath, linkPath)
         IN IF ~linked.ok THEN [tree |-> linked.tree, success |-> FALSE, attempted |-> 1]
            ELSE [linkAction(Tail(targets), original, worktree, linked.tree)
                    EXCEPT !.attempted = @ + 1]

\* The targets of a step, as paths relative to the directory of the action.
FsTargets == {<<".env">>, <<"config">>, <<"logs">>, <<"logs", "app", "debug">>, <<"missing">>}

TargetLists == UNION {[1..n -> FsTargets] : n \in 1..MaxTargets}

\* The targets of a link step: the same and a file inside a directory.
LinkTargetLists ==
    UNION {[1..n -> FsTargets \cup {<<"config", "app.yml">>}] : n \in 1..MaxTargets}

\* The actions of a run. What mkdir, rm and cp do to a symbolic link is not
\* modelled: a run either links or works on files and directories.
FileActions == {"mkdir", "remove", "copy"}
LinkActions == {"link"}

\* What the repository holds: nothing, or an .env file and a config directory.
OriginalTrees ==
    {[q \in {OriginalDir} |-> DirNode],
     [q \in {OriginalDir, OriginalDir \o <<".env">>, OriginalDir \o <<"config">>,
              OriginalDir \o <<"config", "app.yml">>} |->
        IF q = OriginalDir \o <<".env">> THEN FileNode("KEY=new")
        ELSE IF q = OriginalDir \o <<"config", "app.yml">> THEN FileNode("port: 1")
        ELSE DirNode]}

\* What the worktree holds: nothing; an older .env; a config directory with a
\* file of its own; part of the logs directories; a file named logs.
WorktreeTrees ==
    {[q \in {WorktreeDir} |-> DirNode],
     [q \in {WorktreeDir, WorktreeDir \o <<".env">>} |->
        IF q = WorktreeDir THEN DirNode ELSE FileNode("KEY=old")],
     [q \in {WorktreeDir, WorktreeDir \o <<"config">>,
              WorktreeDir \o <<"config", "local.yml">>} |->
        IF q = WorktreeDir \o <<"config", "local.yml">> THEN FileNode("debug: 1")
        ELSE DirNode],
     [q \in {WorktreeDir, WorktreeDir \o <<"logs">>, WorktreeDir \o <<"logs", "app">>,
              WorktreeDir \o <<"logs", "app", "debug">>,
              WorktreeDir \o <<"logs", "app", "debug", "out.log">>} |->
        IF q = WorktreeDir \o <<"logs", "app", "debug", "out.log">> THEN FileNode("line")
        ELSE DirNode],
     [q \in {WorktreeDir, WorktreeDir \o <<"logs">>} |->
        IF q = WorktreeDir THEN DirNode ELSE FileNode("line")]}

\* the two trees side by side
union(a, b) == [q \in DOMAIN a \cup DOMAIN b |-> IF q \in DOMAIN a THEN a[q] ELSE b[q]]

\* One call of an action as the log keeps it.
FsCall(action, before, outcome) ==
    [action |-> action, before |-> before, after |-> outcome.tree,
     success |-> outcome.success, attempted |-> outcome.attempted]

InitFs ==
    /\ \/ \E o \in OriginalTrees, w \in WorktreeTrees, targets \in TargetLists,
             enotdir \in BOOLEAN :
            fs = [tree |-> union(o, w), targets |-> targets, enotdir |-> enotdir,
                  actions |-> FileActions, calls |-> <<>>]
       \/ \E o \in OriginalTrees, w \in WorktreeTrees, targets \in LinkTargetLists :
            fs = [tree |-> union(o, w), targets |-> targets, enotdir |-> FALSE,
                  actions |-> LinkActions, calls |-> <<>>]
    /\ ExecIdle /\ LoadIdle /\ TemplateIdle /\ ExpandIdle /\ AddIdle /\ RemoveIdle
    /\ RunIdle /\ StoreIdle

FsOthers == <<execVars, loadVars, tp, xp, cmd, rmv, rs, md>>

\* the step's targets are handed to an action and its result is taken
applied(action, outcome) ==
    [fs EXCEPT !.tree = outcome.tree,
               !.calls = Append(@, FsCall(action, fs.tree, outcome))]

\* index.ts: a mkdir step, in the worktree
CallMkdir ==
    /\ fs # <<>> /\ Len(fs.calls) < MaxCalls /\ "mkdir" \in fs.actions
    /\ fs' = applied("mkdir", mkdirAction(fs.targets, WorktreeDir, fs.tree))
    /\ UNCHANGED FsOthers

\* index.ts: a remove step, in the worktree
CallRemove ==
    /\ fs # <<>> /\ Len(fs.calls) < MaxCalls /\ "remove" \in fs.actions
    /\ fs' = applied("remove", removeAction(fs.targets, WorktreeDir, fs.tree, fs.enotdir))
    /\ UNCHANGED FsOthers

\* index.ts: a copy step, from the repository to the worktree
CallCopy ==
    /\ fs # <<>> /\ Len(fs.calls) < MaxCalls /\ "copy" \in fs.actions
    /\ fs' = applied("copy", copyAction(fs.targets, OriginalDir, WorktreeDir, fs.tree))
    /\ UNCHANGED FsOthers

\* index.ts: a link step, from the worktree to the repository
CallLink ==
    /\ fs # <<>> /\ Len(fs.calls) < MaxCalls /\ "link" \in fs.actions
    /\ fs' = applied("link", linkAction(fs.targets, OriginalDir, WorktreeDir, fs.tree))
    /\ UNCHANGED FsOthers

NextFs ==
    \/ CallMkdir
    \/ CallRemove
    \/ CallCopy
    \/ CallLink

SpecFs == InitFs /\ [][NextFs]_vars

\* ------------------------------------------------------------------ runStep
\* runner.ts 17-44: the promise runStep returns, the child it spawns and the
\* two listeners. An exit code is None when a signal ended the child.

MaxExitCode == 3

ExitCodes == {None} \cup {Some(n) : n \in 0..MaxExitCode}
SpawnErrors == {"ENOENT", "EACCES", "EAGAIN"}

\* the code the close event carries after a failed spawn
errno(err) == CASE err = "ENOENT" -> 0 - 2 [] err = "EACCES" -> 0 - 13 [] OTHER -> 0 - 11

\* runner.ts 30-33
ExitCodeError(code) == [message |-> "Command failed with exit code", code |-> code]
\* runner.ts 38-41
SpawnError(err) == [message |-> err, code |-> None]

\* a promise nobody has settled yet
PendingPromise == [state |-> "pending", value |-> <<>>, settlements |-> 0]

\* the resolve function of new Promise: the first call settles the promise,
\* later calls do nothing
resolvePromise(promise, value) ==
    IF promise.state # "pending" THEN promise
    ELSE [state |-> "fulfilled", value |-> <<value>>, settlements |-> promise.settlements + 1]

\* faulty variant: every exit code counts as success
onClose_AlwaysSucceeds(code) == [success |-> TRUE, error |-> NoError]

\* runner.ts 26-35: what the close listener resolves with
onClose(code) ==
    IF code = Some(0) THEN [success |-> TRUE, error |-> NoError]
    ELSE [success |-> FALSE, error |-> <<ExitCodeError(code)>>]

\* runner.ts 37-42: what the error listener resolves with
onError(err) == [success |-> FALSE, error |-> <<SpawnError(err)>>]

ChildEvent(event, code, err) == [event |-> event, code |-> code, err |-> err]

InitRun ==
    /\ \E command \in {"exit 0", "exit 1", "npm install", "kill $$"},
          directoryExists \in BOOLEAN,
          SHELL \in {None, Some(""), Some("/bin/zsh")} :
         rs = [command |-> command,
               directoryExists |-> directoryExists,
               shell |-> IF SHELL # None /\ SHELL[1] # "" THEN SHELL[1] ELSE "/bin/sh",
               pc |-> "called",
               events |-> <<>>,
               promise |-> PendingPromise]
    /\ ExecIdle /\ LoadIdle /\ TemplateIdle /\ ExpandIdle /\ AddIdle /\ RemoveIdle /\ FsIdle
    /\ StoreIdle

RunOthers == <<execVars, loadVars, tp, xp, cmd, rmv, fs, md>>

\* runner.ts 21-24: spawn returns a child and the listeners are attached
SpawnChild ==
    /\ rs # <<>> /\ rs.pc = "called"
    /\ rs' = [rs EXCEPT !.pc = "spawned"]
    /\ UNCHANGED RunOthers

\* the shell ran and the child closed: the close listener runs
ChildCloses ==
    /\ rs # <<>> /\ rs.pc = "spawned" /\ rs.directoryExists
    /\ \E code \in ExitCodes :
         rs' = [rs EXCEPT !.pc = "closed",
                          !.events = Append(@, ChildEvent("close", code, "")),
                          !.promise = resolvePromise(@, onClose(code))]
    /\ UNCHANGED RunOthers

\* the shell could not be started (ENOENT when the directory is missing):
\* the error listener runs
ChildErrors ==
    /\ rs # <<>> /\ rs.pc = "spawned"
    /\ \E err \in IF rs.directoryExists THEN SpawnErrors \ {"ENOENT"} ELSE {"ENOENT"} :
         rs' = [rs EXCEPT !.pc = "errored",
                          !.events = Append(@, ChildEvent("error", None, err)),
                          !.promise = resolvePromise(@, onError(err))]
    /\ UNCHANGED RunOthers

\* after the error the child is closed as well, with the error number as
\* code: the close listener runs on a promise that is settled already
ClosesAfterError ==
    /\ rs # <<>> /\ rs.pc = "errored"
    /\ LET code == Some(errno(rs.events[Len(rs.events)].err)) IN
       rs' = [rs EXCEPT !.pc = "closed",
                        !.events = Append(@, ChildEvent("close", code, "")),
                        !.promise = resolvePromise(@, onClose(code))]
    /\ UNCHANGED RunOthers

NextRun ==
    \/ SpawnChild
    \/ ChildCloses
    \/ ChildErrors
    \/ ClosesAfterError

SpecRun == InitRun /\ [][NextRun]_vars

\* ------------------------------------------------- concurrent add commands
\* Two add commands, each a process of its own, started against the same main
\* tree; each has created its worktree and run its hooks and is at add.ts 137.
\* The metadata file is the object its YAML text stands for; readFile and
\* writeFile are taken as atomic.
AddProcesses == {1, 2}

\* a worktree recorded by an earlier command
WorktreeOld == <<"/", "home", "/", "wt-old">>

\* what each command adds
AddedPath(p) == IF p = 1 THEN WorktreeA ELSE WorktreeB

\* add.ts 147-150: the entry written for the worktree
AddedEntry(desc, tag) ==
    [description |-> IF desc = None THEN <<>> ELSE desc[1],
     tags |-> parseTags(tag)]

\* store.ts 74-83
setWorktreeMetadata(metadata, path, data) ==
    [q \in DOMAIN metadata \cup {path} |-> IF q = path THEN data ELSE metadata[q]]

InitStore ==
    /\ \E stored \in {{}, {WorktreeOld}},
          descs \in [AddProcesses -> {None, Some(<<"note">>)}],
          tags \in [AddProcesses -> {None, Some(<<"a", ",", " ", "b">>)}] :
          md = [file |-> MetadataOf(stored),
                procs |-> [p \in AddProcesses |->
                             [path |-> AddedPath(p), desc |-> descs[p], tag |-> tags[p],
                              pc |-> "load",
                              metadata |-> NoMetadata, updated |-> NoMetadata]]]
    /\ ExecIdle /\ LoadIdle /\ TemplateIdle /\ ExpandIdle /\ AddIdle /\ RemoveIdle
    /\ FsIdle /\ RunIdle

StoreOthers == <<execVars, loadVars, tp, xp, cmd, rmv, fs, rs>>

\* add.ts 138: neither --desc nor --tag, nothing is saved
AddSkipsMetadata(p) ==
    /\ md # <<>> /\ md.procs[p].pc = "load"
    /\ ~(Given(md.procs[p].desc) \/ Given(md.procs[p].tag))
    /\ md' = [md EXCEPT !.procs[p].pc = "done"]
    /\ UNCHANGED StoreOthers

\* add.ts 140, store.ts 24-41: the command reads the file
AddLoadsMetadata(p) ==
    /\ md # <<>> /\ md.procs[p].pc = "load"
    /\ Given(md.procs[p].desc) \/ Given(md.procs[p].tag)
    /\ md' = [md EXCEPT !.procs[p].metadata = md.file, !.procs[p].pc = "set"]
    /\ UNCHANGED StoreOthers

\* add.ts 141-150, store.ts 51-55: the entry is set in the object the command
\* loaded, saveMetadata is entered and awaits mkdir
AddSetsMetadata(p) ==
    /\ md # <<>> /\ md.procs[p].pc = "set"
    /\ md' = [md EXCEPT
                !.procs[p].updated =
                    setWorktreeMetadata(md.procs[p].metadata, md.procs[p].path,
                                        AddedEntry(md.procs[p].desc, md.procs[p].tag)),
                !.procs[p].pc = "save"]
    /\ UNCHANGED StoreOthers

\* store.ts 56: writeFile replaces the content of the file
AddSavesMetadata(p) ==
    /\ md # <<>> /\ md.procs[p].pc = "save"
    /\ md' = [md EXCEPT !.file = md.procs[p].updated, !.procs[p].pc = "done"]
    /\ UNCHANGED StoreOthers

NextStore ==
    \E p \in AddProcesses :
        \/ AddSkipsMetadata(p)
        \/ AddLoadsMetadata(p)
        \/ AddSetsMetadata(p)
        \/ AddSavesMetadata(p)

SpecStore == InitStore /\ [][NextStore]_vars

\* ======================================================== hook executor claims
ActionFields == {"run", "mkdir", "remove", "copy", "link"}

\* the step has none of the five action fields
NoneStep(step) == \A f \in ActionFields : ~IsSet(step[f])

\* the step has exactly the action field f, holding a command or target
OnlyAction(step, f) ==
    /\ Truthy(step[f])
    /\ \A g \in ActionFields \ {f} : ~IsSet(step[g])

WorktreePhases == {"post-worktree-add", "pre-worktree-remove"}
NoWorktreePhases == {"pre-worktree-add", "post-worktree-remove"}

\* C1: stop on first failure. Once an action has resolved with a failure, it
\* is the last action that settled, no action of a later step was started,
\* and executeHooks has returned success=false with failedStep the name of
\* that step and error the error the action resolved with.
C1_StopOnFirstFailure ==
    \A k \in 1..Len(settled) :
        ~settled[k].success =>
            /\ k = Len(settled)
            /\ \A j \in 1..Len(started) : started[j].step <= settled[k].step
            /\ inflight = {}
            /\ pc = "Failed"
            /\ result.returned /\ ~result.success
            /\ result.failedStep = steps[settled[k].step].name
            /\ result.error = settled[k].error

\* [ok, fail, ok]: the second of three acting steps failed after the first succeeded
C1_Witness ==
    /\ Len(steps) = 3
    /\ \A i \in 1..3 : ~NoneStep(steps[i]) /\ ActionOf(steps[i]) # "none"
    /\ Len(settled) = 2
    /\ settled[1].success /\ ~settled[2].success /\ settled[2].step = 2
    /\ pc = "Failed"

\* the indexes of the steps that have an action, in list order
ActingSteps ==
    SelectSeq([i \in 1..Len(steps) |-> i],
              LAMBDA i : \E f \in ActionFields : Truthy(steps[i][f]))

\* C2: strictly sequential, at most once. At most one action is in flight,
\* an action is started only when all earlier ones have settled, the started
\* actions are in strictly increasing step order (none twice), and they are
\* a prefix of the step list with the no-action steps left out.
C2_SequentialAtMostOnce ==
    /\ Cardinality(inflight) <= 1
    /\ Len(started) = Len(settled) + Cardinality(inflight)
    /\ \A j \in 1..Len(settled) : settled[j].step = started[j].step
    /\ \A j \in 1..Len(started) : \A k \in 1..Len(started) :
           j < k => started[j].step < started[k].step
    /\ Len(started) <= Len(ActingSteps)
    /\ \A j \in 1..Len(started) : started[j].step = ActingSteps[j]

\* the third step's action is in flight after a no-action step was passed over
C2_Witness ==
    /\ Len(steps) = 3
    /\ NoneStep(steps[2])
    /\ Len(started) = 2 /\ started[2].step = 3
    /\ inflight = {3}
    /\ Len(settled) = 1

\* the loop is at a step whose only action field is copy or link, in a phase
\* without worktree
AtUnavailableCopyOrLink ==
    /\ pc = "Running" /\ idx <= Len(steps)
    /\ OnlyAction(steps[idx], "copy") \/ OnlyAction(steps[idx], "link")
    /\ hookType \in NoWorktreePhases

\* C3: a copy or link step reached in pre-worktree-add or post-worktree-remove
\* fails at once. No copy/link action is ever called in those phases, and the
\* step the loop takes from such a step returns success=false, failedStep the
\* step's name, an error naming the phase and the reason, with no action started.
C3_CopyLinkUnavailable ==
    /\ [](\A j \in 1..Len(started) :
             started[j].action \in {"copy", "link"} => hookType \in WorktreePhases)
    /\ [][AtUnavailableCopyOrLink =>
             /\ pc' = "Failed"
             /\ started' = started /\ inflight' = inflight /\ settled' = settled
             /\ result'.returned /\ ~result'.success
             /\ result'.failedStep = steps[idx].name
             /\ \E m \in 1..Len(result'.error) : result'.error[m] = hookType
             /\ \E m \in 1..Len(result'.error) :
                    result'.error[m] = " hook (worktree does not exist)"]_vars

\* a link step, second in the list, was refused in post-worktree-remove after
\* the first step's action had run
C3_Witness ==
    /\ hookType = "post-worktree-remove"
    /\ pc = "Failed" /\ idx = 2
    /\ OnlyAction(steps[2], "link")
    /\ result.failedStep = steps[2].name
    /\ Len(started) = 1 /\ Len(settled) = 1

\* C4: the default working directory depends on the phase only. A run, mkdir
\* or remove step without working-directory is called with the worktree path
\* in post-worktree-add and pre-worktree-remove, and with the original path
\* in pre-worktree-add and post-worktree-remove.
C4_DefaultWorkingDirectory ==
    \A j \in 1..Len(started) :
        /\ started[j].action \in {"run", "mkdir", "remove"}
        /\ ~IsSet(steps[started[j].step].workingDirectory)
        => started[j].workingDirectory =
              IF hookType \in WorktreePhases
              THEN Context.worktree.path
              ELSE Context.original.path

\* a mkdir step without working-directory was called in post-worktree-remove
C4_Witness ==
    /\ hookType = "post-worktree-remove"
    /\ \E j \in 1..Len(started) :
          /\ started[j].action = "mkdir"
          /\ ~IsSet(steps[started[j].step].workingDirectory)
          /\ started[j].workingDirectory = OriginalPath

\* C10: a step with none of the five action fields is skipped. No action is
\* ever called for it, it is never the failed step, the loop goes from it to
\* the next step changing nothing else, and a list of such steps only returns
\* success.
C10_NoActionStepSkipped ==
    /\ [](\A j \in 1..Len(started) : ~NoneStep(steps[started[j].step]))
    /\ [](pc = "Failed" => ~NoneStep(steps[idx]))
    /\ []((\A i \in 1..Len(steps) : NoneStep(steps[i])) =>
             /\ pc # "Failed"
             /\ result.returned => result = SuccessResult)
    /\ [][(pc = "Running" /\ idx <= Len(steps) /\ NoneStep(steps[idx])) =>
             /\ pc' = "Running" /\ idx' = idx + 1
             /\ UNCHANGED <<started, inflight, settled, result>>]_vars

\* the phase succeeded on a list whose first step has no action and whose
\* later steps ran their actions
C10_Witness ==
    /\ pc = "Succeeded"
    /\ Len(steps) = 3
    /\ NoneStep(steps[1])
    /\ Len(settled) = 2 /\ settled[1].step = 2 /\ settled[2].step = 3


\* ========================================================= config loader claims
\* file i exists and loadSingleConfig returns its RawConfig
ValidFile(i) == files[i].state = "parsed" /\ RawConfigIssues(files[i].doc) = {}

\* file i exists and loadSingleConfig fails on it with a parse or validation error
MalformedFile(i) == files[i].state = "malformed"
InvalidFile(i) == files[i].state = "parsed" /\ RawConfigIssues(files[i].doc) # {}

\* file i is valid and its worktree section defines field f
Defines(i, f) ==
    /\ ValidFile(i)
    /\ files[i].doc.worktree # None
    /\ files[i].doc.worktree[1][f] # None

Latest(S) == CHOOSE i \in S : \A j \in S : j <= i

\* C5: worktree settings are overridden field by field in load order. In the
\* Config loadConfig returns, each of template, separator and deleteBranch
\* that some file defines has the value of the last file (team, user,
\* worktree-local) defining it, whatever later files that omit it hold.
C5_WorktreeFieldOverride ==
    lpc = "done" =>
        \A f \in WorktreeFields :
            LET defining == {i \in 1..3 : Defines(i, f)} IN
            defining # {} =>
                loaded[1].worktree[f] = files[Latest(defining)].doc.worktree[1][f]

\* team defines template and separator, user only another separator, the
\* worktree-local file has a worktree section defining neither
C5_Witness ==
    /\ lpc = "done"
    /\ Defines(1, "template") /\ Defines(1, "separator")
    /\ ~Defines(2, "template") /\ Defines(2, "separator")
    /\ files[2].doc.worktree[1].separator # files[1].doc.worktree[1].separator
    /\ ValidFile(3) /\ files[3].doc.worktree # None
    /\ ~Defines(3, "template") /\ ~Defines(3, "separator")
    /\ loaded[1].worktree.template = Some(TemplateOf(1))
    /\ loaded[1].worktree.separator = files[2].doc.worktree[1].separator

\* the hook list file i defines for phase h (empty when it defines none)
FileHooks(i, h) ==
    IF ValidFile(i) /\ files[i].doc.hooks[h] # None
    THEN files[i].doc.hooks[h][1]
    ELSE <<>>

\* a merged step is the step a file holds: same name, same action fields
SameStep(step, raw) ==
    /\ raw.name = Some(step.name)
    /\ \A f \in ActionFields : step[f] = raw[f]

\* C6: hook lists are concatenated. For each phase the list of the returned
\* Config is the team file's list, then the user file's, then the
\* worktree-local file's, each in its own order; its length is the sum of
\* the three lengths, so nothing is dropped, reordered or deduplicated.
C6_HooksConcatenated ==
    lpc = "done" =>
        \A h \in HookTypes :
            LET expected == FileHooks(1, h) \o FileHooks(2, h) \o FileHooks(3, h)
                merged == loaded[1].hooks[h]
            IN /\ Len(merged) = Len(FileHooks(1, h)) + Len(FileHooks(2, h))
                                 + Len(FileHooks(3, h))
               /\ \A j \in 1..Len(merged) : SameStep(merged[j], expected[j])

\* all three files define post-worktree-add steps, the team file two of them
C6_Witness ==
    /\ lpc = "done"
    /\ Len(FileHooks(1, "post-worktree-add")) = 2
    /\ Len(FileHooks(2, "post-worktree-add")) >= 1
    /\ Len(FileHooks(3, "post-worktree-add")) >= 1
    /\ Len(loaded[1].hooks["post-worktree-add"]) >= 4
    /\ loaded[1].hooks["post-worktree-add"][3].name = StepNameOf(2, 1)

\* C7: config completeness. When every file is either missing or valid,
\* loadConfig never fails, and the Config it returns has template, separator
\* and deleteBranch present and a list for each of the four phases; a field
\* no file defines has its default, and with no file at all the result is
\* DEFAULT_CONFIG.
C7_ConfigComplete ==
    (\A i \in 1..3 : files[i].state = "missing" \/ ValidFile(i)) =>
        /\ lpc # "threw" /\ lerror = None
        /\ lpc = "done" =>
             /\ loaded # None
             /\ DOMAIN loaded[1].hooks = HookTypes
             /\ \A h \in HookTypes :
                    DOMAIN loaded[1].hooks[h] = 1..Len(loaded[1].hooks[h])
             /\ \A f \in WorktreeFields :
                    /\ loaded[1].worktree[f] # None
                    /\ (\A i \in 1..3 : ~Defines(i, f)) =>
                           loaded[1].worktree[f] = DEFAULT_CONFIG.worktree[f]
             /\ (\A i \in 1..3 : files[i].state = "missing") =>
                    loaded[1] = DEFAULT_CONFIG

\* only the user file exists and it defines nothing but the separator
C7_Witness ==
    /\ lpc = "done"
    /\ files[1].state = "missing" /\ files[3].state = "missing"
    /\ Defines(2, "separator") /\ ~Defines(2, "template") /\ ~Defines(2, "deleteBranch")
    /\ loaded[1].worktree.separator = Some("underscore")
    /\ loaded[1].worktree.template = DEFAULT_CONFIG.worktree.template
    /\ loaded[1].worktree.deleteBranch = Some("ask")

\* the number of files loadConfig has read so far
FilesRead ==
    CASE lpc = "team" -> 0
      [] lpc = "user" -> 1
      [] lpc = "local" -> 2
      [] lpc \in {"merge", "done"} -> 3
      [] OTHER -> 0

\* the steps without name in the document of file i, as issue paths
NamelessSteps(i) ==
    UNION {{<<h, ToString(j - 1), "name">> :
               j \in {k \in 1..Len(files[i].doc.hooks[h][1]) :
                         files[i].doc.hooks[h][1][k].name = None}} :
           h \in {g \in HookTypes : files[i].doc.hooks[g] # None}}

\* C8: loadSingleConfig by file state, and the failure of loadConfig.
\* A missing file is no error and adds no config; loadConfig fails only on
\* the first file that exists and cannot be loaded: malformed YAML gives a
\* "Failed to parse" error naming that file, content violating the schema an
\* "Invalid configuration" error naming it with a non-empty issue list that
\* holds the path of every step without name. When a file is malformed or
\* invalid, loadConfig never returns a Config.
C8_LoadOutcomes ==
    /\ lpc # "threw" =>
          /\ lerror = None
          /\ Len(configs) = Cardinality({i \in 1..FilesRead : ValidFile(i)})
          /\ \A i \in 1..FilesRead : files[i].state = "missing" \/ ValidFile(i)
    /\ lpc = "threw" =>
          /\ lerror # None /\ loaded = None
          /\ \E i \in 1..3 :
                /\ \A j \in 1..(i - 1) : files[j].state = "missing" \/ ValidFile(j)
                /\ files[i].state # "missing" /\ ~ValidFile(i)
                /\ MalformedFile(i) =>
                      /\ lerror[1].message[1] = "Failed to parse "
                      /\ lerror[1].message[2] = ConfigPaths[i]
                /\ InvalidFile(i) =>
                      /\ lerror[1].message[1] = "Invalid configuration in "
                      /\ lerror[1].message[2] = ConfigPaths[i]
                      /\ lerror[1].issues # {}
                      /\ NamelessSteps(i) \subseteq lerror[1].issues
    /\ (\E i \in 1..3 : MalformedFile(i) \/ InvalidFile(i)) =>
          /\ loaded = None
          /\ lpc \notin {"merge", "done"}

\* the team file is missing, the user file valid, and loadConfig failed on
\* the worktree-local file, which holds a step without name
C8_Witness ==
    /\ lpc = "threw"
    /\ files[1].state = "missing"
    /\ ValidFile(2) /\ Len(configs) = 1
    /\ InvalidFile(3) /\ NamelessSteps(3) # {}
    /\ NamelessSteps(3) \subseteq lerror[1].issues

\* the number of action fields a step has
ActionFieldCount(step) == Cardinality({f \in ActionFields : IsSet(step[f])})

\* the steps of file i that have more than one action field
HasTwoActionStep(i) ==
    /\ files[i].state = "parsed"
    /\ \E h \in HookTypes :
          /\ files[i].doc.hooks[h] # None
          /\ \E j \in 1..Len(files[i].doc.hooks[h][1]) :
                ActionFieldCount(files[i].doc.hooks[h][1][j]) > 1

\* C9: a step with more than one action field is a configuration error.
\* Loading a file that holds such a step fails, so loadConfig never gets
\* past such a file and no step of a returned Config has two action fields.
C9_TwoActionStepRejected ==
    /\ \A i \in 1..3 : HasTwoActionStep(i) => FilesRead < i
    /\ lpc = "done" =>
          \A h \in HookTypes : \A j \in 1..Len(loaded[1].hooks[h]) :
              ActionFieldCount(loaded[1].hooks[h][j]) <= 1

\* ------------------------------------------- claims about working-directory
\* The calls that take a working directory: run, mkdir and remove.
DirectoryCalls == {j \in 1..Len(started) : started[j].action \in {"run", "mkdir", "remove"}}

\* The working-directory string of a step after hook-command expansion.
ExpandedDirectory(step) == expandHookCommand(step.workingDirectory.items[1], Context)

PhaseDefault == IF hookType \in WorktreePhases THEN WorktreePath ELSE OriginalPath

\* C11: a step that sets working-directory runs in the expanded value when
\* that is absolute and in the phase default joined with it when it is
\* relative; a step that does not set it runs in the phase default.
C11_WorkingDirectoryOverride ==
    \A j \in DirectoryCalls :
        LET step == steps[started[j].step]
            wd == started[j].workingDirectory
        IN IF step.workingDirectory.tag = "undef"
           THEN wd = PhaseDefault
           ELSE LET expanded == ExpandedDirectory(step) IN
                IF expanded # <<>> /\ Head(expanded) = "/"
                THEN wd = expanded
                ELSE wd = PhaseDefault \o expanded

\* One phase ran a step in an absolute template directory and a step in a
\* relative template directory.
C11_Witness ==
    /\ hookType = "pre-worktree-add"
    /\ \E j, k \in DirectoryCalls :
        /\ steps[started[j].step].workingDirectory = Str(<<"${{ original.path }}", "/sub">>)
        /\ started[j].workingDirectory = <<"/", "repo", "/sub">>
        /\ steps[started[k].step].workingDirectory = Str(<<"${{ worktree.basename }}">>)
        /\ started[k].workingDirectory = <<"/", "repo", "wt">>

\* The steps the three files hold for phase h, in load order.
AllFileHooks(h) == FileHooks(1, h) \o FileHooks(2, h) \o FileHooks(3, h)

\* C12: a working-directory written on a step of a config file is still on
\* that step in the Config loadConfig returns, so executing the loaded step
\* resolves the same directory as executing the step as written.
C12_WorkingDirectoryLoaded ==
    lpc = "done" =>
        \A h \in HookTypes :
            /\ Len(loaded[1].hooks[h]) = Len(AllFileHooks(h))
            /\ \A j \in 1..Len(AllFileHooks(h)) :
                  /\ loaded[1].hooks[h][j].workingDirectory
                        = AllFileHooks(h)[j].workingDirectory
                  /\ resolveWorkingDirectory(loaded[1].hooks[h][j], h, Context)
                        = resolveWorkingDirectory(AllFileHooks(h)[j], h, Context)

\* ---------------------------------------------- claims about action payloads
\* The payload strings of a step as written: the command, or the targets.
WrittenPayload(step) ==
    IF ActionOf(step) = "run" THEN <<step.run.items[1]>>
    ELSE normalizeTargets(step[ActionOf(step)])

\* C13: the payload of every action call (the command of run, each target of
\* copy, link, mkdir and remove) is the step's payload with its placeholders
\* expanded from the hook context.
C13_PayloadExpanded ==
    \A j \in 1..Len(started) :
        LET written == WrittenPayload(steps[started[j].step]) IN
        started[j].payload = [t \in DOMAIN written |-> expandHookCommand(written[t], Context)]

\* The source and destination paths copyAction and linkAction compute from
\* the context they are called with (join(originalPath, target) and
\* join(worktreePath, target)).
worktreeActionPaths(targets, original, worktree) ==
    [t \in DOMAIN targets |->
        [sourcePath |-> pathJoin(original, targets[t]),
         destPath |-> pathJoin(worktree, targets[t])]]

WorktreeCalls == {j \in 1..Len(started) : started[j].action \in {"copy", "link"}}

\* C14: where the worktree is available, copy and link read every source
\* under context.original.path and write every destination under
\* context.worktree.path, whether or not the step sets working-directory.
C14_CopyLinkWorktreeScoped ==
    \A j \in WorktreeCalls :
        LET step == steps[started[j].step]
            targets == normalizeTargets(step[started[j].action])
            paths == worktreeActionPaths(started[j].payload,
                                         started[j].originalPath,
                                         started[j].worktreePath)
        IN /\ hookType \in WorktreePhases
           /\ Len(paths) = Len(targets)
           /\ \A t \in DOMAIN targets :
                 /\ paths[t].sourcePath = OriginalPath \o targets[t]
                 /\ paths[t].destPath = WorktreePath \o targets[t]

\* A copy step and a link step that both set working-directory were called.
C14_Witness ==
    \E j, k \in WorktreeCalls :
        /\ started[j].action = "copy" /\ started[k].action = "link"
        /\ Truthy(steps[started[j].step].workingDirectory)
        /\ Truthy(steps[started[k].step].workingDirectory)

\* ------------------------------------------------------ claims about rollback
IsPrefix(a, b) == Len(a) <= Len(b) /\ SubSeq(b, 1, Len(a)) = a

SeparatorChar(separator) ==
    CASE separator = "hyphen" -> "-"
      [] separator = "underscore" -> "_"
      [] separator = "slash" -> "/"

\* branch with every "/" element replaced by the separator's character
Rendered(branch, separator) ==
    [i \in 1..Len(branch) |->
        IF branch[i] = "/" THEN SeparatorChar(separator) ELSE branch[i]]

\* C16: the path template gets the branch with "/" rendered by the
\* separator, a hook command gets the raw branch. Stated on the template
\* that is the branch placeholder alone and on the default template, whose
\* expansion for separator hyphen, basename foo and branch feature/add-cart
\* is ../foo-feature-add-cart.
C16_BranchRendering ==
    /\ tp.path # None /\ tp.template = <<"${{ worktree.branch }}">> =>
          tp.path[1] = Rendered(tp.branch, tp.separator)
    /\ tp.command # None /\ tp.template = <<"${{ worktree.branch }}">> =>
          tp.command[1] = tp.branch
    /\ tp.path # None /\ tp.template = DEFAULT_CONFIG.worktree.template[1] =>
          tp.path[1] = <<"../", "foo", "-">> \o Rendered(tp.branch, tp.separator)
    /\ tp.command # None /\ tp.template = DEFAULT_CONFIG.worktree.template[1] =>
          tp.command[1] = <<"../", "foo", "-">> \o tp.branch
    /\ /\ tp.path # None
       /\ tp.template = DEFAULT_CONFIG.worktree.template[1]
       /\ tp.separator = "hyphen"
       /\ tp.branch = <<"feature", "/", "add-cart">>
       => tp.path[1] = <<"../", "foo", "-", "feature", "-", "add-cart">>

\* the default template was expanded both ways for feature/add-cart
C16_Witness ==
    /\ tp.template = DEFAULT_CONFIG.worktree.template[1]
    /\ tp.separator = "hyphen"
    /\ tp.branch = <<"feature", "/", "add-cart">>
    /\ tp.path = Some(<<"../", "foo", "-", "feature", "-", "add-cart">>)
    /\ tp.command = Some(<<"../", "foo", "-", "feature", "/", "add-cart">>)

\* C18: transformBranch with slash returns the branch; with hyphen
\* (underscore) it returns a string of the same length that has "-" ("_")
\* wherever the branch has "/" and the branch's own element elsewhere; a
\* branch without "/" comes back unchanged for every separator.
C18_TransformBranch ==
    tp.transformed # None =>
        LET out == tp.transformed[1] IN
        /\ tp.separator = "slash" => out = tp.branch
        /\ Len(out) = Len(tp.branch)
        /\ \A i \in 1..Len(tp.branch) :
              IF tp.branch[i] = "/"
              THEN out[i] = SeparatorChar(tp.separator)
              ELSE out[i] = tp.branch[i]
        /\ (\A i \in 1..Len(tp.branch) : tp.branch[i] # "/") => out = tp.branch

\* a branch with two "/" was transformed with underscore
C18_Witness ==
    /\ tp.branch = <<"/", "a", "/">>
    /\ tp.separator = "underscore"
    /\ tp.transformed = Some(<<"_", "a", "_">>)

\* what the claim expects of a segment: text stays, a placeholder becomes the
\* value of its key, or nothing when the map has no such key
ExpectedOf(seg, variables) ==
    IF seg.kind = "text" THEN seg.text
    ELSE IF seg.key \in DOMAIN variables THEN variables[seg.key]
    ELSE <<>>

RECURSIVE ExpectedAll(_, _)
ExpectedAll(segs, variables) ==
    IF segs = <<>> THEN <<>>
    ELSE ExpectedOf(Head(segs), variables) \o ExpectedAll(Tail(segs), variables)

\* C17: expandTemplate replaces each placeholder, whatever white space
\* surrounds its key, by variables[key] when the map holds the key and by
\* the empty string when it does not, and keeps all other text, so a
\* template without placeholder comes back unchanged.
C17_ExpandTemplate ==
    xp.out # None => xp.out[1] = ExpectedAll(xp.segments, xp.variables)

\* ------------------------------------------------- claims about the add command
\* the events of the given stage
EventsOf(stage) == {j \in 1..Len(cmd.events) : cmd.events[j].stage = stage}

\* the hook-only variables expand to nothing in a hook command of context
HookOnlyEmpty(context) ==
    /\ expandHookCommand(<<"${{ worktree.path }}">>, context) = <<>>
    /\ expandHookCommand(<<"${{ worktree.basename }}">>, context) = <<>>

\* C19: worktree.path and worktree.basename expand only where the worktree
\* exists. In the path template they expand to nothing, in the commands of
\* pre-worktree-add hooks they expand to nothing, in those of
\* post-worktree-add hooks they expand to the worktree's path and name.
C19_HookOnlyVariables ==
    /\ expandWorktreeTemplate(<<"${{ worktree.path }}">>, templateContext(cmd),
                              cmd.separator) = <<>>
    /\ expandWorktreeTemplate(<<"${{ worktree.basename }}">>, templateContext(cmd),
                              cmd.separator) = <<>>
    /\ \A j \in EventsOf("pre-worktree-add") : HookOnlyEmpty(cmd.events[j].context)
    /\ \A j \in EventsOf("post-worktree-add") :
          expandHookCommand(<<"${{ worktree.path }}">>, cmd.events[j].context)
              = worktreeAbsolutePath(cmd)

StageRank(stage) ==
    CASE stage = "pre-worktree-add" -> 1
      [] stage = "create" -> 2
      [] stage = "post-worktree-add" -> 3
      [] stage = "metadata" -> 4

\* C20: the stages of add come in the order pre-worktree-add hooks, worktree
\* creation, post-worktree-add hooks, metadata, each at most once and only
\* after every earlier stage succeeded. After a failed pre-add phase no
\* worktree is created; after a failed creation no post-add hook runs, no
\* metadata is written, and the process has exited with code 1.
C20_AddLifecycle ==
    /\ \A i, j \in 1..Len(cmd.events) :
          i < j => /\ StageRank(cmd.events[i].stage) < StageRank(cmd.events[j].stage)
                   /\ cmd.events[i].ok
    /\ (cmd.worktree # None) = (\E j \in EventsOf("create") : cmd.events[j].ok)
    /\ (cmd.metadata # None) = (\E j \in EventsOf("metadata") : cmd.events[j].ok)
    /\ (\E j \in EventsOf("pre-worktree-add") : ~cmd.events[j].ok) =>
          /\ cmd.worktree = None /\ EventsOf("create") = {}
          /\ cmd.pc = "exited" /\ cmd.exitCode = Some(1)
    /\ (\E j \in EventsOf("create") : ~cmd.events[j].ok) =>
          /\ EventsOf("post-worktree-add") = {} /\ EventsOf("metadata") = {}
          /\ cmd.metadata = None
          /\ cmd.pc = "exited" /\ cmd.exitCode = Some(1)
    /\ (\E j \in EventsOf("post-worktree-add") : ~cmd.events[j].ok) =>
          /\ cmd.metadata = None /\ EventsOf("metadata") = {}
          /\ cmd.pc = "exited" /\ cmd.exitCode = Some(1)
    /\ cmd.pc = "returned" =>
          /\ (Len(cmd.pre) > 0) = (EventsOf("pre-worktree-add") # {})
          /\ EventsOf("create") # {}
          /\ (Len(cmd.post) > 0) = (EventsOf("post-worktree-add") # {})
          /\ (Given(cmd.desc) \/ Given(cmd.tag)) = (EventsOf("metadata") # {})

\* a run went through all four stages, in order
C20_Witness ==
    /\ cmd.pc = "returned"
    /\ Len(cmd.events) = 4
    /\ cmd.events[1].stage = "pre-worktree-add" /\ cmd.events[2].stage = "create"
    /\ cmd.events[3].stage = "post-worktree-add" /\ cmd.events[4].stage = "metadata"
    /\ cmd.metadata # None /\ cmd.worktree # None

\* ======================================================== remove command claims

\* the positions of the events of one stage for one worktree
RemoveEventsAt(stage, target) ==
    {k \in 1..Len(rmv.events) :
        rmv.events[k].stage = stage /\ rmv.events[k].target = target}

\* the positions of the events of one stage for one worktree with one outcome
RemoveOutcomesAt(stage, target, ok) ==
    {k \in RemoveEventsAt(stage, target) : rmv.events[k].ok = ok}

\* the order of the stages of one removal, and what a failed pre-remove phase
\* leaves behind
RemoveOrder ==
    rmv # <<>> =>
      \A t \in AllWorktrees :
        /\ \A k \in RemoveEventsAt("remove", t) :
              /\ \A j \in RemoveEventsAt("pre-worktree-remove", t) : j < k
              /\ Len(rmv.pre) > 0 =>
                    \E j \in RemoveOutcomesAt("pre-worktree-remove", t, TRUE) : j < k
        /\ \A k \in RemoveEventsAt("post-worktree-remove", t) :
              \E j \in RemoveOutcomesAt("remove", t, TRUE) : j < k
        /\ \A k \in RemoveOutcomesAt("pre-worktree-remove", t, FALSE) :
              /\ \A j \in (k + 1)..Len(rmv.events) : rmv.events[j].target # t
              /\ t \in rmv.worktrees
              /\ listWorktrees[t].branch # "" => listWorktrees[t].branch \in rmv.branches

\* the step in which a pre-worktree-remove phase fails
PreRemoveFails ==
    /\ rmv # <<>> /\ rmv.pc = "pre"
    /\ Len(rmv'.events) = Len(rmv.events) + 1
    /\ rmv'.events[Len(rmv'.events)].stage = "pre-worktree-remove"
    /\ ~rmv'.events[Len(rmv'.events)].ok

\* C21: for one worktree the pre-worktree-remove phase completes before the
\* worktree is removed and the post-worktree-remove phase runs only after a
\* successful removal; when the pre-worktree-remove phase fails the worktree
\* and its branch stay, the metadata in memory and on disk is left as it was,
\* and nothing more is done for that worktree.
C21_RemoveLifecycle ==
    [][ /\ RemoveOrder'
        /\ PreRemoveFails =>
              /\ rmv'.metadata = rmv.metadata
              /\ rmv'.store = rmv.store
              /\ rmv'.worktrees = rmv.worktrees
              /\ rmv'.branches = rmv.branches ]_vars

\* one worktree's pre-worktree-remove phase failed, another worktree of the
\* same run was removed and its post-worktree-remove phase ran
C21_Witness ==
    /\ rmv # <<>>
    /\ \E t \in AllWorktrees, u \in AllWorktrees :
         /\ t # u
         /\ RemoveOutcomesAt("pre-worktree-remove", t, FALSE) # {}
         /\ RemoveOutcomesAt("pre-worktree-remove", u, TRUE) # {}
         /\ RemoveOutcomesAt("post-worktree-remove", u, TRUE) # {}
         /\ u \notin rmv.worktrees

\* the add command has ended after a hook phase of it failed
AddHookFailed ==
    /\ cmd # <<>> /\ cmd.pc \in {"exited", "returned"}
    /\ \E k \in 1..Len(cmd.events) :
         /\ cmd.events[k].stage \in {"pre-worktree-add", "post-worktree-add"}
         /\ ~cmd.events[k].ok

\* the remove command has ended after a hook phase of it failed
RemoveHookFailed ==
    /\ rmv # <<>> /\ rmv.pc \in {"exited", "returned"}
    /\ \E k \in 1..Len(rmv.events) :
         /\ rmv.events[k].stage \in {"pre-worktree-remove", "post-worktree-remove"}
         /\ ~rmv.events[k].ok

\* C22: a command in which a hook phase failed ends with a non-zero exit
\* status, for add and for remove with one target or with --tag.
C22_HookFailureFatal ==
    /\ AddHookFailed => cmd.exitCode # Some(0)
    /\ RemoveHookFailed => rmv.exitCode # Some(0)

\* the add command could not save the metadata of the worktree it created
AddSaveFailed ==
    /\ cmd # <<>>
    /\ \E k \in 1..Len(cmd.events) :
         cmd.events[k].stage = "metadata" /\ ~cmd.events[k].ok

\* the worktrees whose removal was followed by a failed save of the metadata
RemoveSaveFailed ==
    IF rmv = <<>> THEN {}
    ELSE {t \in AllWorktrees : RemoveOutcomesAt("save-metadata", t, FALSE) # {}}

\* C23: a failed save of the metadata after the worktree was created or
\* removed is reported and nothing more: the created worktree stays, the
\* removed worktree stays removed, and the command ends with exit status 0.
C23_SaveFailureNotFatal ==
    /\ AddSaveFailed =>
          /\ cmd.worktree # None
          /\ cmd.pc = "returned" /\ cmd.exitCode = Some(0)
    /\ \A t \in RemoveSaveFailed :
          /\ t \notin rmv.worktrees
          /\ rmv.pc \in {"exited", "returned"} => rmv.exitCode = Some(0)

\* a single-target remove has returned after the save of the metadata failed
C23_Witness ==
    /\ rmv # <<>> /\ rmv.selection.mode = "branch" /\ rmv.pc = "returned"
    /\ RemoveSaveFailed # {}

\* the directory is the root of the worktree or lies inside it
IsInside(dir, root) ==
    /\ Len(root) <= Len(dir)
    /\ SubSeq(dir, 1, Len(root)) = root
    /\ Len(dir) > Len(root) => dir[Len(root) + 1] = "/"

\* the worktrees the command must not remove: the main worktree and the one
\* the user is in
ProtectedWorktrees ==
    {t \in AllWorktrees :
        \/ isMainPath(t)
        \/ IsInside(rmv.currentDir, normalize(listWorktrees[t].path))}

\* C24: the main worktree and the worktree the user is in are never removed,
\* however the target is selected; no hook phase runs for them and they still
\* exist afterwards.
C24_ProtectedNeverRemoved ==
    rmv # <<>> =>
      \A t \in ProtectedWorktrees :
        /\ t \in rmv.worktrees
        /\ RemoveEventsAt("pre-worktree-remove", t) = {}
        /\ RemoveEventsAt("post-worktree-remove", t) = {}

\* the worktrees that were removed and whose branch has been dealt with
BranchHandled ==
    {t \in AllWorktrees :
        /\ RemoveOutcomesAt("remove", t, TRUE) # {}
        /\ ~(rmv.pc = "branch" /\ Target(rmv) = t)}

\* the deletion of the worktree's branch was attempted
DeletionAttempted(t) == RemoveEventsAt("delete-branch", t) # {}

\* the answers the user gave when asked whether to delete the branch
BranchAnswers(t) == {rmv.events[k].ok : k \in RemoveEventsAt("ask-branch", t)}

\* C25: after a successful removal --delete-branch deletes the branch and
\* --keep-branch keeps it, whatever the configuration; with neither flag
\* deleteBranch=always deletes, never keeps, and ask deletes under --force and
\* otherwise asks the user and follows the answer; a detached worktree never
\* has a branch deleted.
C25_BranchDeletionDecision ==
    rmv # <<>> =>
      \A t \in BranchHandled :
        IF listWorktrees[t].branch = "" THEN ~DeletionAttempted(t)
        ELSE IF rmv.deleteBranchOption THEN DeletionAttempted(t)
        ELSE IF rmv.keepBranchOption THEN ~DeletionAttempted(t)
        ELSE IF rmv.deleteBranch = "always" THEN DeletionAttempted(t)
        ELSE IF rmv.deleteBranch = "never" THEN ~DeletionAttempted(t)
        ELSE IF rmv.force THEN DeletionAttempted(t) /\ BranchAnswers(t) = {}
        ELSE \E answer \in BOOLEAN :
               /\ BranchAnswers(t) = {answer}
               /\ DeletionAttempted(t) <=> answer

\* the worktrees the run removed, leaving aside those for which writing the
\* metadata file failed
RemovedAndSaved ==
    {t \in AllWorktrees :
        /\ t \notin rmv.worktrees
        /\ RemoveOutcomesAt("save-metadata", t, FALSE) = {}}

\* C26: once a remove run has ended, the metadata file has no entry for a
\* worktree the run removed, whether or not it had one before.
C26_MetadataEntryRemoved ==
    (rmv # <<>> /\ rmv.pc \in {"exited", "returned"}) =>
      \A t \in RemovedAndSaved : listWorktrees[t].path \notin DOMAIN rmv.store

\* the questions of a safety event that the user answered with yes
Confirmed(event) ==
    {event.prompts[k].question : k \in {j \in 1..Len(event.prompts) : event.prompts[j].answer}}

\* what the log says about the safety prompts: under --force none is shown;
\* otherwise a removal is attempted only after a safety check in which every
\* warning that applied was confirmed, and a declined warning ends the run
\* with exit status 0, the worktree and its branch still there
SafetyOrder ==
    rmv # <<>> =>
      \A t \in AllWorktrees :
        /\ \A k \in RemoveEventsAt("safety", t) :
              /\ rmv.force => rmv.events[k].prompts = <<>>
              /\ ~rmv.events[k].ok =>
                    /\ k = Len(rmv.events)
                    /\ rmv.pc = "exited" /\ rmv.exitCode = Some(0)
                    /\ t \in rmv.worktrees
                    /\ listWorktrees[t].branch # "" => listWorktrees[t].branch \in rmv.branches
        /\ ~rmv.force =>
              \A k \in RemoveEventsAt("remove", t) :
                \E j \in RemoveOutcomesAt("safety", t, TRUE) :
                  /\ j < k
                  /\ Confirmed(rmv.events[j]) = rmv.events[j].facts

\* the step in which the user declines a safety warning
SafetyDeclined ==
    /\ rmv # <<>> /\ rmv.pc = "safety"
    /\ Len(rmv'.events) = Len(rmv.events) + 1
    /\ ~rmv'.events[Len(rmv'.events)].ok

FsCallsOf(action) ==
    IF fs = <<>> THEN {}
    ELSE {k \in 1..Len(fs.calls) : fs.calls[k].action = action}

\* the full paths of the step's targets under a directory
TargetPaths(dir) == {join(dir, fs.targets[i]) : i \in 1..Len(fs.targets)}

\* the target directories and every directory on the way to them
WantedDirectories ==
    UNION {ancestors(p) \cup {p} : p \in TargetPaths(WorktreeDir)}

\* every entry of tree a is in tree b, unchanged
Keeps(a, b) == \A q \in DOMAIN a : q \in DOMAIN b /\ b[q] = a[q]

\* C28: mkdirAction creates every target with all missing directories on
\* the way and touches nothing else; a directory that exists already is no
\* error; a second run of the same mkdir succeeds and changes nothing.
C28_MkdirIdempotent ==
    \A k \in FsCallsOf("mkdir") :
      LET call == fs.calls[k] IN
        /\ (\A q \in WantedDirectories : ~isFile(call.before, q)) => call.success
        /\ call.success =>
              /\ \A q \in WantedDirectories : isDirectory(call.after, q)
              /\ DOMAIN call.after = DOMAIN call.before \cup WantedDirectories
        /\ Keeps(call.before, call.after)
        /\ (k - 1 \in FsCallsOf("mkdir") /\ fs.calls[k - 1].success) =>
              call.success /\ call.after = call.before

\* logs/app/debug was created in a worktree without a logs directory, and the
\* same mkdir was run again
C28_Witness ==
    /\ FsCallsOf("mkdir") = {1, 2}
    /\ \E i \in 1..Len(fs.targets) : fs.targets[i] = <<"logs", "app", "debug">>
    /\ WorktreeDir \o <<"logs">> \notin DOMAIN fs.calls[1].before
    /\ fs.calls[1].success /\ fs.calls[2].success
    /\ isDirectory(fs.tree, WorktreeDir \o <<"logs", "app", "debug">>)

\* nothing of tree is at or below one of the paths
NoneLeft(tree, paths) == \A q \in DOMAIN tree : \A p \in paths : ~startsWith(q, p)

\* C29: removeAction removes every target, file or directory tree, and
\* nothing else; a target that does not exist is no error; after a success
\* no target exists, and a second run succeeds and changes nothing.
C29_RemoveIdempotent ==
    \A k \in FsCallsOf("remove") :
      LET call == fs.calls[k]
          paths == TargetPaths(WorktreeDir)
      IN
        /\ (\A p \in paths : ~fileAbove(call.before, p)) => call.success
        /\ call.success =>
              /\ NoneLeft(call.after, paths)
              /\ \A q \in DOMAIN call.before :
                    (\A p \in paths : ~startsWith(q, p)) =>
                        q \in DOMAIN call.after /\ call.after[q] = call.before[q]
        /\ Keeps(call.after, call.before)
        /\ (k - 1 \in FsCallsOf("remove") /\ fs.calls[k - 1].success) =>
              call.success /\ call.after = call.before

\* a logs directory tree and a target that did not exist were removed, and
\* the same remove was run again
C29_Witness ==
    /\ FsCallsOf("remove") = {1, 2}
    /\ fs.targets = <<<<"logs">>, <<"missing">>>>
    /\ WorktreeDir \o <<"logs", "app", "debug", "out.log">> \in DOMAIN fs.calls[1].before
    /\ fs.calls[1].success /\ fs.calls[2].success
    /\ NoneLeft(fs.tree, TargetPaths(WorktreeDir))

\* everything at and below src in tree a is at and below dst in tree b
SameContent(a, src, b, dst) ==
    \A q \in DOMAIN a :
      startsWith(q, src) =>
        LET r == dst \o SubSeq(q, Len(src) + 1, Len(q))
        IN r \in DOMAIN b /\ b[r] = a[q]

\* trees a and b hold the same at and below p
SameBelow(a, b, p) ==
    \A q \in DOMAIN a \cup DOMAIN b :
      startsWith(q, p) => q \in DOMAIN a /\ q \in DOMAIN b /\ a[q] = b[q]

\* C30: copyAction copies each target from the repository to the same place
\* in the worktree, an existing destination taking the content of the source;
\* a target missing in the repository makes the action return success=false
\* and nothing is created or changed at its destination. (A file that is to
\* replace a directory, or a directory a file, is the one other way to fail.)
C30_CopyOverwrites ==
    \A k \in FsCallsOf("copy") :
      LET call == fs.calls[k]
          sourceOf(i) == join(OriginalDir, fs.targets[i])
          destinationOf(i) == join(WorktreeDir, fs.targets[i])
          missing == {i \in 1..Len(fs.targets) : sourceOf(i) \notin DOMAIN call.before}
          clash == {i \in 1..Len(fs.targets) \ missing :
                      \/ fileAbove(call.before, destinationOf(i))
                      \/ /\ destinationOf(i) \in DOMAIN call.before
                         /\ call.before[destinationOf(i)].kind # call.before[sourceOf(i)].kind}
      IN
        /\ missing # {} => ~call.success
        /\ (missing = {} /\ clash = {}) => call.success
        /\ call.success =>
              \A i \in 1..Len(fs.targets) :
                SameContent(call.before, sourceOf(i), call.after, destinationOf(i))
        /\ \A i \in missing : SameBelow(call.before, call.after, destinationOf(i))
        /\ SameBelow(call.before, call.after, OriginalDir)

\* the older .env of the worktree was overwritten, then the target missing in
\* the repository ended the action with an error and was not created
C30_Witness ==
    /\ FsCallsOf("copy") = {1}
    /\ fs.targets = <<<<".env">>, <<"missing">>>>
    /\ isFile(fs.calls[1].before, WorktreeDir \o <<".env">>)
    /\ fs.calls[1].before[WorktreeDir \o <<".env">>] # fs.tree[WorktreeDir \o <<".env">>]
    /\ fs.tree[WorktreeDir \o <<".env">>] = fs.tree[OriginalDir \o <<".env">>]
    /\ ~fs.calls[1].success
    /\ WorktreeDir \o <<"missing">> \notin DOMAIN fs.tree

\* the path a relative link leads to from the directory it is in
RECURSIVE follow(_, _)
follow(dir, to) ==
    IF to = <<>> THEN dir
    ELSE IF Head(to) = ".." THEN follow(SubSeq(dir, 1, Len(dir) - 1), Tail(to))
    ELSE follow(Append(dir, Head(to)), Tail(to))

\* a link at p that leads to source by a relative path
LinksTo(tree, p, source) ==
    /\ p \in DOMAIN tree /\ tree[p].kind = "link"
    /\ tree[p].to # <<>> /\ Head(tree[p].to) = ".."
    /\ follow(SubSeq(p, 1, Len(p) - 1), tree[p].to) = source

\* C31: linkAction makes, for each target, a symbolic link in the worktree
\* that leads by a relative path to the target in the repository; a missing
\* source or anything already at the destination makes it return
\* success=false, and nothing that existed is changed.
C31_LinkNeverOverwrites ==
    \A k \in FsCallsOf("link") :
      LET call == fs.calls[k]
          sourceOf(i) == join(OriginalDir, fs.targets[i])
          linkOf(i) == join(WorktreeDir, fs.targets[i])
          all == 1..Len(fs.targets)
          refused == {i \in all : \/ sourceOf(i) \notin DOMAIN call.before
                                  \/ linkOf(i) \in DOMAIN call.before}
          orphan == {i \in all : ~isDirectory(call.before, SubSeq(linkOf(i), 1, Len(linkOf(i)) - 1))}
          twice == {i \in all : \E j \in 1..(i - 1) : fs.targets[j] = fs.targets[i]}
      IN
        /\ refused # {} => ~call.success
        /\ (refused = {} /\ orphan = {} /\ twice = {}) => call.success
        /\ call.success => \A i \in all : LinksTo(call.after, linkOf(i), sourceOf(i))
        /\ Keeps(call.before, call.after)

\* node_modules-like case of the tests: .env was linked, then config, which
\* the worktree already had, ended the action and stayed as it was
C31_Witness ==
    /\ FsCallsOf("link") = {1}
    /\ fs.targets = <<<<".env">>, <<"config">>>>
    /\ isDirectory(fs.calls[1].before, WorktreeDir \o <<"config">>)
    /\ ~fs.calls[1].success
    /\ LinksTo(fs.tree, WorktreeDir \o <<".env">>, OriginalDir \o <<".env">>)
    /\ fs.tree[WorktreeDir \o <<"config">>] = fs.calls[1].before[WorktreeDir \o <<"config">>]

\* ================================================================ runStep claims

\* the first event of the child, once there is one
FirstEvent == rs.events[1]

\* C32: runStep's promise is never rejected and is settled exactly once,
\* by the first event of the child, whatever follows: with success=true if
\* and only if the child closed with exit code 0, with an error that carries
\* the exit code when it closed with another code, and with the spawn error
\* when the child reported an error.
C32_RunStepSettlesOnce ==
    rs # <<>> =>
      /\ rs.promise.state # "rejected"
      /\ rs.events = <<>> => rs.promise = PendingPromise
      /\ rs.events # <<>> =>
            /\ rs.promise.state = "fulfilled" /\ rs.promise.settlements = 1
            /\ rs.promise.value[1].success <=>
                  \E k \in 1..Len(rs.events) :
                    rs.events[k].event = "close" /\ rs.events[k].code = Some(0)
            /\ (FirstEvent.event = "close" /\ FirstEvent.code # Some(0)) =>
                  rs.promise.value[1] =
                    [success |-> FALSE, error |-> <<ExitCodeError(FirstEvent.code)>>]
            /\ FirstEvent.event = "error" =>
                  rs.promise.value[1] =
                    [success |-> FALSE, error |-> <<SpawnError(FirstEvent.err)>>]

\* the spawn failed, the error listener settled the promise, and the close
\* event that followed changed nothing
C32_Witness ==
    /\ rs # <<>> /\ Len(rs.events) = 2
    /\ rs.events[1].event = "error" /\ rs.events[2].event = "close"
    /\ rs.promise.settlements = 1
    /\ rs.promise.value[1].error = <<SpawnError("ENOENT")>>

\* ============================================================ phase termination
\* The phase of executeHooks as the claim names it.
PhaseReturned == pc \in {"Succeeded", "Failed"}

\* The moves between the phase states: Pending -> Running(i) -> Succeeded or
\* Failed(i); awaiting the action of step i is part of Running(i).
PhaseMove ==
    \/ pc = "Pending" /\ pc' \in {"Pending", "Running"}
    \/ pc = "Running" /\ pc' \in {"Running", "Awaiting", "Succeeded", "Failed"}
    \/ pc = "Awaiting" /\ pc' \in {"Awaiting", "Running", "Failed"}
    \/ PhaseReturned /\ pc' = pc /\ idx' = idx /\ result' = result

\* step i was dispatched and its action resolved with success
StepRan(i) == \E k \in 1..Len(settled) : settled[k].step = i /\ settled[k].success

\* step i failed: its action resolved with an error, or it was a copy or link
\* step refused because the worktree does not exist in this hook
StepFailed(i) ==
    \/ \E k \in 1..Len(settled) : settled[k].step = i /\ ~settled[k].success
    \/ /\ ActionOf(steps[i]) \in {"copy", "link"}
       /\ ~isWorktreeAvailable(hookType)

\* C33: for every finite step list, if every dispatched action eventually
\* completes, executeHooks eventually returns; on the way it goes through
\* Pending -> Running(i) -> Succeeded | Failed(i) with the step index only
\* increasing; it returns Succeeded only after every step was run or skipped,
\* and Failed(i) only when step i failed.
C33_PhaseTermination ==
    /\ <>PhaseReturned
    /\ [][PhaseMove /\ idx' >= idx]_vars
    /\ [](pc = "Succeeded" =>
            /\ result = SuccessResult
            /\ \A i \in 1..Len(steps) :
                  StepRan(i) \/ ActionOf(steps[i]) = "none")
    /\ [](pc = "Failed" =>
            /\ idx \in 1..Len(steps)
            /\ StepFailed(idx)
            /\ result.returned /\ ~result.success
            /\ result.failedStep = steps[idx].name
            /\ \A i \in 1..(idx - 1) :
                  StepRan(i) \/ ActionOf(steps[i]) = "none")

\* a list of three steps where one was skipped and one ran before the third
\* failed, and executeHooks has returned
C33_Witness ==
    /\ pc = "Failed" /\ Len(steps) = 3 /\ idx = 3
    /\ \E i \in 1..2 : ActionOf(steps[i]) = "none"
    /\ \E i \in 1..2 : StepRan(i)
    /\ \E k \in 1..Len(settled) : settled[k].step = 3 /\ ~settled[k].success

\* ================================================ branch deletion on ask only
\* the run asks before deleting a branch: no flag decides, the configuration
\* says ask
AskConfigured ==
    /\ ~rmv.force /\ ~rmv.deleteBranchOption /\ ~rmv.keepBranchOption
    /\ rmv.deleteBranch = "ask"

\* C34: with none of --force, --delete-branch and --keep-branch and with
\* deleteBranch = ask, the branch of a removed worktree is deleted only if the
\* user answered yes to the delete-branch prompt, also after the user confirmed
\* an uncommitted-changes or unpushed-commits warning in the same removal.
C34_BranchDeletedOnlyOnYes ==
    (rmv # <<>> /\ AskConfigured) =>
      \A t \in AllWorktrees :
        /\ DeletionAttempted(t) => TRUE \in BranchAnswers(t)
        /\ (listWorktrees[t].branch # "" /\ listWorktrees[t].branch \notin rmv.branches)
              => TRUE \in BranchAnswers(t)

\* ===================================================== declined prompts, hooks
\* the worktrees whose removal was abandoned at a prompt the user declined:
\* the removal confirmation or a safety warning
Declined ==
    {t \in AllWorktrees :
        \/ RemoveOutcomesAt("confirm", t, FALSE) # {}
        \/ RemoveOutcomesAt("safety", t, FALSE) # {}}

\* C35: when a removal is abandoned because the user declines the removal
\* confirmation or a safety confirmation, no pre-worktree-remove hook step has
\* been executed for that worktree.
C35_DeclinedBeforeHooks ==
    rmv # <<>> =>
      \A t \in Declined : RemoveEventsAt("pre-worktree-remove", t) = {}

\* ========================================================= action precedence
\* the order in which executeHooks looks at the action fields
Precedence == <<"run", "mkdir", "remove", "copy", "link">>

\* The positions in that order of the fields a step has set. A field counts
\* as set when it carries a value the executor can see: a path, a list, a
\* non-empty command; a run command that is the empty string is no command.
FieldsSet(step) == {k \in 1..Len(Precedence) : Truthy(step[Precedence[k]])}

\* the field of highest precedence among those set
FirstSet(step) ==
    Precedence[CHOOSE k \in FieldsSet(step) : \A j \in FieldsSet(step) : k <= j]

\* the calls made for step i
CallsOf(i) == {k \in 1..Len(started) : started[k].step = i}

\* the step was refused because copy or link has no worktree to work on
Unavailable(i) ==
    /\ pc = "Failed" /\ idx = i
    /\ \E kind \in {"copy", "link"} : result.error = UnavailableError(kind, hookType)

\* C36: for a step with more than one action field set executeHooks performs
\* exactly one action, the first set one in the order run, mkdir, remove,
\* copy, link, with that field's value only; a copy or link field behind a
\* field of higher precedence never makes the step fail for want of a
\* worktree.
C36_ActionPrecedence ==
    \A i \in 1..Len(steps) :
      Cardinality(FieldsSet(steps[i])) > 1 =>
        /\ Cardinality(CallsOf(i)) <= 1
        /\ \A k \in CallsOf(i) :
              /\ started[k].action = FirstSet(steps[i])
              /\ started[k].payload =
                    IF FirstSet(steps[i]) = "run"
                    THEN <<expandHookCommand(steps[i].run.items[1], Context)>>
                    ELSE normalizeTargets(steps[i][FirstSet(steps[i])])
        /\ (idx > i \/ pc = "Succeeded") => Cardinality(CallsOf(i)) = 1
        /\ Unavailable(i) => FirstSet(steps[i]) \in {"copy", "link"}
        /\ FirstSet(steps[i]) \in {"run", "mkdir", "remove"} =>
              (pc = "Failed" /\ idx = i => CallsOf(i) # {})

\* in pre-worktree-add a step with a command, a copy and a link field has had
\* its command run, and the phase has succeeded
C36_Witness ==
    /\ hookType = "pre-worktree-add" /\ pc = "Succeeded"
    /\ Len(steps) >= 1
    /\ FieldsSet(steps[1]) = {1, 4, 5}
    /\ \E k \in CallsOf(1) : started[k].action = "run"

\* ====================================================== single-pass expansion
\* the string holds a placeholder somewhere
HoldsPlaceholder(str) == \E i \in 1..Len(str) : matchesAt(str, i)

\* the values of the map that a placeholder of the template names
InsertedValues ==
    {xp.variables[xp.segments[k].key] :
        k \in {j \in 1..Len(xp.segments) :
                  /\ xp.segments[j].kind = "placeholder"
                  /\ xp.segments[j].key \in DOMAIN xp.variables}}

\* str holds value at position i
HoldsAt(str, value, i) ==
    /\ i + Len(value) - 1 <= Len(str)
    /\ SubSeq(str, i, i + Len(value) - 1) = value

\* the template is made of placeholders only, each naming a key of the map
OnlyKnownPlaceholders ==
    \A k \in 1..Len(xp.segments) :
        /\ xp.segments[k].kind = "placeholder"
        /\ xp.segments[k].key \in DOMAIN xp.variables

\* the values of the placeholders of the template, one after the other
RECURSIVE ValuesOf(_, _)
ValuesOf(segs, variables) ==
    IF segs = <<>> THEN <<>>
    ELSE variables[Head(segs).key] \o ValuesOf(Tail(segs), variables)

\* C37: expansion is single-pass. Text inserted as the value of a variable is
\* not scanned for placeholders: a value that holds a ${{ key }} sequence
\* appears verbatim in the result, in expandTemplate itself and so in the
\* expanded worktree path and in the expanded hook command, which insert the
\* branch and the paths by one call of it.
C37_SinglePass ==
    /\ (xp # <<>> /\ xp.out # None) =>
          /\ \A value \in InsertedValues :
                \E i \in 1..Len(xp.out[1]) : HoldsAt(xp.out[1], value, i)
          /\ OnlyKnownPlaceholders =>
                xp.out[1] = ValuesOf(xp.segments, xp.variables)
    /\ expandHookCommand(<<"echo ", "${{ worktree.branch }}">>,
                         HookContext(<<"${{ original.path }}">>))
          = <<"echo ", "${{ original.path }}">>
    /\ expandWorktreeTemplate(<<"${{ worktree.branch }}">>,
                              WorktreeTemplateContext(<<"x", "/", "${{ original.path }}">>),
                              "hyphen")
          = <<"x", "-", "${{ original.path }}">>

\* a template of two placeholders was expanded with values that are written
\* like placeholders of each other, and the result still holds placeholders
C37_Witness ==
    /\ xp # <<>> /\ xp.out # None
    /\ Len(xp.segments) = 2 /\ OnlyKnownPlaceholders
    /\ \A value \in InsertedValues : HoldsPlaceholder(value)
    /\ Cardinality(InsertedValues) = 2
    /\ HoldsPlaceholder(xp.out[1])

\* ===================================================== targets in list order
\* what an action does with one target on the given tree
handled(action, tree, target) ==
    CASE action = "mkdir" -> mkdir(tree, join(WorktreeDir, target))
      [] action = "remove" -> rm(tree, join(WorktreeDir, target), fs.enotdir)
      [] action = "copy" ->
           cp(tree, join(OriginalDir, target), join(WorktreeDir, target))
      [] action = "link" ->
           IF join(OriginalDir, target) \notin DOMAIN tree
           THEN [tree |-> tree, ok |-> FALSE]
           ELSE symlink(tree, relative(SubSeq(join(WorktreeDir, target), 1,
                                              Len(join(WorktreeDir, target)) - 1),
                                       join(OriginalDir, target)),
                        join(WorktreeDir, target))

\* the tree once the first k targets of the run were handled, one after the
\* other in list order
RECURSIVE TreeAfter(_, _, _)
TreeAfter(action, tree, k) ==
    IF k = 0 THEN tree
    ELSE handled(action, TreeAfter(action, tree, k - 1), fs.targets[k]).tree

\* the targets that fail when their turn comes
Failing(action, tree) ==
    {k \in 1..Len(fs.targets) :
        ~handled(action, TreeAfter(action, tree, k - 1), fs.targets[k]).ok}

\* the first of them, or the length of the list plus one
FirstFailing(action, tree) ==
    IF Failing(action, tree) = {} THEN Len(fs.targets) + 1
    ELSE CHOOSE k \in Failing(action, tree) : \A j \in Failing(action, tree) : k <= j

\* C38: copy, link, mkdir and remove handle their targets in list order; the
\* first target that fails makes the action return failure, no target after
\* it is attempted, and what was done for the targets before it stays.
C38_TargetsInOrder ==
    fs # <<>> =>
      \A c \in 1..Len(fs.calls) :
        LET call == fs.calls[c]
            first == FirstFailing(call.action, call.before)
        IN /\ call.success <=> first > Len(fs.targets)
           /\ call.attempted = IF first > Len(fs.targets) THEN Len(fs.targets) ELSE first
           /\ call.after = TreeAfter(call.action, call.before, first - 1)

\* a copy whose second target failed after the first was copied, then a mkdir
\* whose first target failed so that the second was not attempted
C38_Witness ==
    /\ fs # <<>> /\ Len(fs.targets) = 2 /\ Len(fs.calls) = 2
    /\ fs.calls[1].action = "copy" /\ ~fs.calls[1].success
    /\ fs.calls[1].attempted = 2 /\ fs.calls[1].after # fs.calls[1].before
    /\ fs.calls[2].action = "mkdir" /\ ~fs.calls[2].success
    /\ fs.calls[2].attempted = 1 /\ fs.calls[2].after = fs.calls[2].before

\* ============================================================ --tag batch mode
\* the positions of the log where the command turns to worktree t
AttemptsOf(t) ==
    {k \in 1..Len(rmv.events) :
        /\ rmv.events[k].target = t
        /\ k > 1 => rmv.events[k - 1].target # t}

\* a --tag run that found worktrees to remove has ended
BatchEnded ==
    /\ rmv # <<>> /\ rmv.selection.mode = "tag"
    /\ rmv.targets # <<>>
    /\ rmv.pc \in {"exited", "returned"}

\* C39: in remove --tag every matching removable worktree is attempted exactly
\* once, in listing order; a removal that is skipped or fails (a declined
\* confirmation, a hook failure, a git failure) does not keep the remaining
\* worktrees from being attempted.
C39_BatchAttemptsAll ==
    BatchEnded =>
      /\ \A k \in 1..Len(rmv.targets) : Cardinality(AttemptsOf(rmv.targets[k])) = 1
      /\ \A j, k \in 1..Len(rmv.targets) :
            j < k => \A a \in AttemptsOf(rmv.targets[j]), b \in AttemptsOf(rmv.targets[k]) :
                        a < b

\* ============================================================ concurrent adds
\* both commands were given --desc or --tag and both have completed
BothSaved ==
    /\ md # <<>>
    /\ \A p \in AddProcesses :
          /\ Given(md.procs[p].desc) \/ Given(md.procs[p].tag)
          /\ md.procs[p].pc = "done"

\* C40: the metadata updates of two concurrent add commands with --desc or
\* --tag are not lost: in every interleaving of their load, modify and save
\* steps the file holds the entries of both worktrees once both have
\* completed.
C40_NoLostUpdate ==
    BothSaved =>
      \A p \in AddProcesses :
        /\ md.procs[p].path \in DOMAIN md.file
        /\ md.file[md.procs[p].path] = AddedEntry(md.procs[p].desc, md.procs[p].tag)

====
